---- MODULE Spec2Model ----
(***************************************************************************)
(* Password-reset token lifecycle of the todo application: the two request *)
(* handlers (forgot-password, reset-password), the reset-token ledger      *)
(* (passwordResetUtils), the JWT envelope, the JSON storage layer and the  *)
(* cleanup scheduler.                                                      *)
(*                                                                         *)
(* Strings whose characters matter (emails) are sequences of one-character *)
(* strings.  Time is Date.now() in scaled milliseconds.  A handler is a    *)
(* process whose steps are the stretches of code between two awaited I/O   *)
(* operations; the continuation of an awaited read takes the value read,   *)
(* runs the synchronous code behind it and issues the next I/O operation.  *)
(***************************************************************************)
EXTENDS Integers, Sequences, FiniteSets, Bags, TLC

(***************************************************************************)
(* Bounds of the model and program constants.                              *)
(***************************************************************************)
\* const TOKEN_EXPIRY_HOURS = 1
TOKEN_EXPIRY_HOURS == 1
\* scaled stand-in for the 60 * 60 seconds of an hour
HourSeconds == 1
\* scaled stand-in for the 1000 milliseconds of a second
MsPerSecond == 2
\* the clock runs this many ticks beyond one token lifetime
ExtraTicks == 0
\* number of reset tokens generateResetToken can hand out
MaxTokens == 2
\* number of request handlers that can be in flight at once
NumProcs == 2
\* password writes recorded per reset token
MaxResets == 2
\* background promises that may be pending at once (bound)
MaxBg == 4
\* number of collaborator calls that fail (bound)
MaxFaults == 1

HourMs == HourSeconds * MsPerSecond
MaxClock == TOKEN_EXPIRY_HOURS * HourMs + ExtraTicks
Procs == 1 .. NumProcs

(***************************************************************************)
(* JavaScript values.                                                      *)
(***************************************************************************)
\* a property missing from the request body (undefined)
Missing == <<"undefined">>
NoPassword == "undefined"
EmptyTokens == << >>

LowerChar(c) == IF c = "A" THEN "a" ELSE IF c = "B" THEN "b" ELSE c
ToLowerCase(s) == [i \in 1 .. Len(s) |-> LowerChar(s[i])]
\* a test that every string passes
IncludesAnything(s, c) == TRUE
Includes(s, c) == \E i \in 1 .. Len(s) : s[i] = c

\* !email : undefined and the empty string are falsy
FalsyEmail(email) == email = Missing \/ email = << >>
\* !password
FalsyPassword(password) == password = NoPassword \/ password = ""

\* !password || password.length < 6, with the boundary one character too low
ShortPasswordBelowFive(password) == FalsyPassword(password) \/ Len(password) < 5

\* !password || password.length < 6
ShortPassword(password) == FalsyPassword(password) \/ Len(password) < 6

\* findIndex over the indices that pass its test: the first of them, 0
\* standing for -1
FindIndex(matching) ==
    IF matching = {} THEN 0 ELSE CHOOSE i \in matching : \A j \in matching : i <= j

(***************************************************************************)
(* The inputs requests are drawn from.                                     *)
(***************************************************************************)
EmailA == <<"a", "@">>
EmailAUpper == <<"A", "@">>
EmailB == <<"b", "@">>
EmailBStored == <<"B", "@">>
EmailNone == <<"n", "@">>
EmailInputs == {Missing, << >>, <<"a">>, EmailA, EmailAUpper, EmailB, EmailNone}
PasswordInputs == {NoPassword, "", "12345", "123456"}

\* bcrypt.hash(password, 12)
BcryptHash(password) == [bcrypt |-> password]

\* the hash literal of memoryStorage.users: a bcrypt string that is the hash
\* of none of the passwords a request carries, "password123" of the
\* comment beside it included (bcrypt.compare gives false for it)
StoredHash == [bcrypt |-> "(not password123)"]

\* memoryStorage.users as the module is loaded: the one test user, whose
\* address test@example.com is written EmailA
InitialUsers ==
    << [id |-> "1", name |-> "Test User", email |-> EmailA, password |-> StoredHash] >>

(***************************************************************************)
(* Reset-token codec: createResetJWT / verifyResetJWT.                     *)
(***************************************************************************)
JWT_SECRET == "your-secret-key-change-in-production"
NoJWT == [kind |-> "undefined"]
EmptyString == [kind |-> "string", text |-> ""]
MalformedToken == [kind |-> "string", text |-> "invalid-token"]

\* jsonwebtoken's clock: Math.floor(Date.now() / 1000)
ClockTimestamp(t) == t \div MsPerSecond

\* jwt.sign(payload, key, { expiresIn: '1h' })
JwtSign(email, resetToken, type, key, t) ==
    [kind |-> "jwt", email |-> email, resetToken |-> resetToken, type |-> type,
     exp |-> ClockTimestamp(t) + TOKEN_EXPIRY_HOURS * HourSeconds, key |-> key]

createResetJWT(email, resetToken, t) ==
    JwtSign(email, resetToken, "password-reset", JWT_SECRET, t)

NoDecoded == [kind |-> "null"]

\* jwt.verify throws on a malformed token, a bad signature or an elapsed exp;
\* the catch block and the type check turn every failure into null
verifyResetJWT(token, t) ==
    IF token.kind # "jwt" THEN NoDecoded
    ELSE IF token.key # JWT_SECRET THEN NoDecoded
    ELSE IF ClockTimestamp(t) >= token.exp THEN NoDecoded
    ELSE IF token.type # "password-reset" THEN NoDecoded
    ELSE [kind |-> "decoded", email |-> token.email, resetToken |-> token.resetToken]

\* getResetUrl
getResetUrl(jwtToken) == [path |-> "/reset-password", token |-> jwtToken]

(***************************************************************************)
(* The string that carries an envelope: jsonwebtoken's compact              *)
(* serialisation base64url(header) "." base64url(payload) "."               *)
(* base64url(signature). A string is the sequence of its UTF-16 code units. *)
(* A code unit is written as the character itself for the codes 32 .. 126   *)
(* other than the grave accent, and as U+ with the four hexadecimal digits  *)
(* of its code (upper case) for every other code: "U+000A" is the line      *)
(* feed, "U+00E9" the e with acute accent.                                  *)
(***************************************************************************)
\* the characters of the codes 32 .. 126, in the order of their codes
Ascii ==
    <<" ", "!", "\"", "#", "$", "%", "&", "'", "(", ")", "*", "+", ",",
      "-", ".", "/", "0", "1", "2", "3", "4", "5", "6", "7", "8", "9", ":",
      ";", "<", "=", ">", "?", "@", "A", "B", "C", "D", "E", "F", "G", "H",
      "I", "J", "K", "L", "M", "N", "O", "P", "Q", "R", "S", "T", "U", "V",
      "W", "X", "Y", "Z", "[", "\\", "]", "^", "_", "U+0060", "a", "b",
      "c", "d", "e", "f", "g", "h", "i", "j", "k", "l", "m", "n", "o", "p",
      "q", "r", "s", "t", "u", "v", "w", "x", "y", "z", "{", "|", "}", "~">>

\* the code of the first character of Ascii
AsciiBase == 32

\* the code of every character of Ascii
CharCodes ==
    [c \in {Ascii[i] : i \in 1 .. Len(Ascii)} |->
        AsciiBase - 1 + CHOOSE i \in 1 .. Len(Ascii) : Ascii[i] = c]

\* the hexadecimal digits, as they are written in U+ and as JSON.stringify
\* writes them
HexUpper ==
    <<"0", "1", "2", "3", "4", "5", "6", "7", "8", "9", "A", "B", "C", "D", "E", "F">>
HexLower ==
    <<"0", "1", "2", "3", "4", "5", "6", "7", "8", "9", "a", "b", "c", "d", "e", "f">>

\* the value of a hexadecimal digit of either case
HexValues ==
    [c \in {HexUpper[i] : i \in 1 .. Len(HexUpper)} \cup {HexLower[i] : i \in 1 .. Len(HexLower)} |->
        (CHOOSE i \in 1 .. Len(HexUpper) : HexUpper[i] = c \/ HexLower[i] = c) - 1]

\* the number four hexadecimal digits write
HexNumber(a, b, c, d) ==
    ((HexValues[a] * Len(HexUpper) + HexValues[b]) * Len(HexUpper) + HexValues[c])
        * Len(HexUpper) + HexValues[d]

\* charCodeAt
CharCode(c) ==
    IF c \in DOMAIN CharCodes THEN CharCodes[c]
    ELSE HexNumber(SubSeq(c, 3, 3), SubSeq(c, 4, 4), SubSeq(c, 5, 5), SubSeq(c, 6, 6))

\* String.fromCharCode
CharOf(n) ==
    IF n >= AsciiBase /\ n < AsciiBase + Len(Ascii) THEN Ascii[n - AsciiBase + 1]
    ELSE "U+" \o HexUpper[(n \div 4096) + 1] \o HexUpper[((n \div 256) % 16) + 1]
              \o HexUpper[((n \div 16) % 16) + 1] \o HexUpper[(n % 16) + 1]

\* the code units of the surrogates: the first of a pair, the second
HighSurrogates == 55296 .. 56319
LowSurrogates == 56320 .. 57343

\* U+FFFD, which stands for bytes that are no UTF-8
Replacement == "U+FFFD"

\* the index of the first element of s from i on that is not in the set
\* plain, or the index after the last element
RunEnd(s, i, plain) ==
    LET stops == {j \in i .. Len(s) : s[j] \notin plain}
    IN IF stops = {} THEN Len(s) + 1 ELSE CHOOSE j \in stops : \A k \in stops : j <= k

\* the UTF-8 bytes of a text from its i-th character on: one byte for a code
\* below 128, two below 2048, four for a surrogate pair, the bytes of U+FFFD
\* for a surrogate without its partner, three for every other code
RECURSIVE Utf8From(_, _)
Utf8From(text, i) ==
    LET run == RunEnd(text, i, DOMAIN CharCodes)
    IN
    IF i > Len(text) THEN << >>
    ELSE IF run > i
    THEN [j \in 1 .. run - i |-> CharCodes[text[i + j - 1]]] \o Utf8From(text, run)
    ELSE LET c == CharCode(text[i])
             paired == /\ c \in HighSurrogates
                       /\ i < Len(text)
                       /\ CharCode(text[i + 1]) \in LowSurrogates
             point == 65536 + (c - 55296) * 1024 + (CharCode(text[i + 1]) - 56320)
         IN IF c < 128 THEN <<c>> \o Utf8From(text, i + 1)
            ELSE IF c < 2048
            THEN <<192 + (c \div 64), 128 + (c % 64)>> \o Utf8From(text, i + 1)
            ELSE IF paired
            THEN <<240 + (point \div 262144), 128 + ((point \div 4096) % 64),
                   128 + ((point \div 64) % 64), 128 + (point % 64)>>
                     \o Utf8From(text, i + 2)
            ELSE IF c \in HighSurrogates \cup LowSurrogates
            THEN <<239, 191, 189>> \o Utf8From(text, i + 1)
            ELSE <<224 + (c \div 4096), 128 + ((c \div 64) % 64), 128 + (c % 64)>>
                     \o Utf8From(text, i + 1)

\* Buffer.from(text): the UTF-8 bytes of a text
Bytes(text) ==
    IF \A i \in 1 .. Len(text) : text[i] \in DOMAIN CharCodes
    THEN [i \in 1 .. Len(text) |-> CharCodes[text[i]]]
    ELSE Utf8From(text, 1)

\* the text of UTF-8 bytes from the i-th byte on, after the characters acc:
\* every longest run of bytes that begins a character and does not complete
\* it gives one U+FFFD, and so does every byte that begins none
RECURSIVE Utf8Text(_, _, _)
Utf8Text(bytes, i, acc) ==
    LET run == RunEnd(bytes, i, AsciiBase .. AsciiBase + Len(Ascii) - 1)
    IN
    IF i > Len(bytes) THEN acc
    ELSE IF run > i
    THEN Utf8Text(bytes, run, acc \o [j \in 1 .. run - i |-> CharOf(bytes[i + j - 1])])
    ELSE LET lead == bytes[i]
             Goes(j, low, high) == j <= Len(bytes) /\ bytes[j] >= low /\ bytes[j] <= high
             Low(j) == bytes[j] - 128
             second == IF lead = 224 THEN 160 ELSE IF lead = 240 THEN 144 ELSE 128
             secondMax == IF lead = 237 THEN 159 ELSE IF lead = 244 THEN 143 ELSE 191
             point == (lead - 240) * 262144 + Low(i + 1) * 4096 + Low(i + 2) * 64
                          + Low(i + 3) - 65536
         IN IF lead < 128 THEN Utf8Text(bytes, i + 1, Append(acc, CharOf(lead)))
            ELSE IF lead \in 194 .. 223
            THEN IF Goes(i + 1, 128, 191)
                 THEN Utf8Text(bytes, i + 2,
                               Append(acc, CharOf((lead - 192) * 64 + Low(i + 1))))
                 ELSE Utf8Text(bytes, i + 1, Append(acc, Replacement))
            ELSE IF lead \in 224 .. 239
            THEN IF ~Goes(i + 1, second, secondMax)
                 THEN Utf8Text(bytes, i + 1, Append(acc, Replacement))
                 ELSE IF ~Goes(i + 2, 128, 191)
                 THEN Utf8Text(bytes, i + 2, Append(acc, Replacement))
                 ELSE Utf8Text(bytes, i + 3,
                               Append(acc, CharOf((lead - 224) * 4096 + Low(i + 1) * 64
                                                      + Low(i + 2))))
            ELSE IF lead \in 240 .. 244
            THEN IF ~Goes(i + 1, second, secondMax)
                 THEN Utf8Text(bytes, i + 1, Append(acc, Replacement))
                 ELSE IF ~Goes(i + 2, 128, 191)
                 THEN Utf8Text(bytes, i + 2, Append(acc, Replacement))
                 ELSE IF ~Goes(i + 3, 128, 191)
                 THEN Utf8Text(bytes, i + 3, Append(acc, Replacement))
                 ELSE Utf8Text(bytes, i + 4,
                               acc \o <<CharOf(55296 + (point \div 1024)),
                                        CharOf(56320 + (point % 1024))>>)
            ELSE Utf8Text(bytes, i + 1, Append(acc, Replacement))

\* buffer.toString(): the text of UTF-8 bytes
TextOf(bytes) ==
    IF \A i \in 1 .. Len(bytes) : bytes[i] >= AsciiBase /\ bytes[i] < AsciiBase + Len(Ascii)
    THEN [i \in 1 .. Len(bytes) |-> Ascii[bytes[i] - AsciiBase + 1]]
    ELSE Utf8Text(bytes, 1, << >>)

\* buffer.toString('binary'): every byte is the code of a character
BinaryTextOf(bytes) == [i \in 1 .. Len(bytes) |-> CharOf(bytes[i])]

\* the alphabet of base64url, in the order of the values 0 .. 63
Base64Url ==
    <<"A", "B", "C", "D", "E", "F", "G", "H", "I", "J", "K", "L", "M", "N",
      "O", "P", "Q", "R", "S", "T", "U", "V", "W", "X", "Y", "Z", "a", "b",
      "c", "d", "e", "f", "g", "h", "i", "j", "k", "l", "m", "n", "o", "p",
      "q", "r", "s", "t", "u", "v", "w", "x", "y", "z", "0", "1", "2", "3",
      "4", "5", "6", "7", "8", "9", "-", "_">>

\* the value of every character of the alphabet
Sextets ==
    [c \in {Base64Url[i] : i \in 1 .. Len(Base64Url)} |->
        (CHOOSE i \in 1 .. Len(Base64Url) : Base64Url[i] = c) - 1]

Sextet(c) == Sextets[c]

\* base64url without padding: the bits of the bytes in groups of six
base64urlEncode(bytes) ==
    LET At(j) == IF j <= Len(bytes) THEN bytes[j] ELSE 0
        Six(i) == LET bit == (i - 1) * 6
                  IN ((At(bit \div 8 + 1) * 256 + At(bit \div 8 + 2))
                          \div 2 ^ (10 - (bit % 8))) % 64
    IN [i \in 1 .. (Len(bytes) * 4 + 2) \div 3 |-> Base64Url[Six(i) + 1]]

\* the text is made of characters of the alphabet: /^[a-zA-Z0-9\-_]*$/
IsBase64Url(text) == \A i \in 1 .. Len(text) : text[i] \in DOMAIN Sextets

\* Buffer.from(text, 'base64') of such a text: the bits of the characters in
\* groups of eight, the bits that fill no byte dropped
base64urlDecode(text) ==
    LET At(i) == IF i <= Len(text) THEN Sextet(text[i]) ELSE 0
        Eight(k) == LET bit == (k - 1) * 8
                    IN ((At(bit \div 6 + 1) * 4096 + At(bit \div 6 + 2) * 64
                            + At(bit \div 6 + 3))
                            \div 2 ^ (10 - (bit % 6))) % 256
    IN [k \in 1 .. (Len(text) * 6) \div 8 |-> Eight(k)]

\* the escapes of two characters that JSON has for control characters
ShortEscapes ==
    [c \in {"U+0008", "U+0009", "U+000A", "U+000C", "U+000D"} |->
        IF c = "U+0008" THEN "b" ELSE IF c = "U+0009" THEN "t"
        ELSE IF c = "U+000A" THEN "n" ELSE IF c = "U+000C" THEN "f" ELSE "r"]

\* \uXXXX with the digits in lower case
UnicodeEscape(n) ==
    <<"\\", "u", HexLower[(n \div 4096) + 1], HexLower[((n \div 256) % 16) + 1],
      HexLower[((n \div 16) % 16) + 1], HexLower[(n % 16) + 1]>>

\* JSON.stringify of a string from its i-th character on: the quote, the
\* backslash, the control characters and the surrogates without partner are
\* escaped
RECURSIVE JsonEscapeFrom(_, _)
JsonEscapeFrom(s, i) ==
    LET run == RunEnd(s, i, DOMAIN CharCodes \ {"\"", "\\"})
    IN
    IF i > Len(s) THEN << >>
    ELSE IF run > i THEN SubSeq(s, i, run - 1) \o JsonEscapeFrom(s, run)
    ELSE IF s[i] \in {"\"", "\\"} THEN <<"\\", s[i]>> \o JsonEscapeFrom(s, i + 1)
    ELSE IF s[i] \in DOMAIN CharCodes THEN <<s[i]>> \o JsonEscapeFrom(s, i + 1)
    ELSE IF s[i] \in DOMAIN ShortEscapes
    THEN <<"\\", ShortEscapes[s[i]]>> \o JsonEscapeFrom(s, i + 1)
    ELSE LET c == CharCode(s[i])
             paired == /\ c \in HighSurrogates
                       /\ i < Len(s)
                       /\ CharCode(s[i + 1]) \in LowSurrogates
         IN IF c < AsciiBase \/ (c \in HighSurrogates \cup LowSurrogates /\ ~paired)
            THEN UnicodeEscape(c) \o JsonEscapeFrom(s, i + 1)
            ELSE IF paired THEN <<s[i], s[i + 1]>> \o JsonEscapeFrom(s, i + 2)
            ELSE <<s[i]>> \o JsonEscapeFrom(s, i + 1)

JsonEscape(s) == JsonEscapeFrom(s, 1)

\* a JSON.stringify that writes the characters as they are
JsonStringRaw(s) == <<"\"">> \o s \o <<"\"">>

JsonString(s) == <<"\"">> \o JsonEscape(s) \o <<"\"">>

DigitChars == <<"0", "1", "2", "3", "4", "5", "6", "7", "8", "9">>

IsDigit(c) == \E d \in 1 .. Len(DigitChars) : DigitChars[d] = c

DigitValue(c) == (CHOOSE d \in 1 .. Len(DigitChars) : DigitChars[d] = c) - 1

\* JSON.stringify of a non-negative integer
RECURSIVE JsonNumber(_)
JsonNumber(n) ==
    IF n < Len(DigitChars) THEN <<DigitChars[n + 1]>>
    ELSE Append(JsonNumber(n \div Len(DigitChars)), DigitChars[(n % Len(DigitChars)) + 1])

(***************************************************************************)
(* JSON.parse, for the texts of an object whose values are strings and      *)
(* non-negative integers of at most MaxDigits digits. A text that is no     *)
(* JSON gives JsonFail: JSON.parse throws. A text that holds something else *)
(* of JSON where a value can stand (a literal, an array, an object, a       *)
(* sign, a fraction, an exponent, more digits, or anything but an object at *)
(* the top) gives JsonOther: what JSON.parse makes of it is not said.       *)
(***************************************************************************)
JsonFail == [ok |-> FALSE, other |-> FALSE, value |-> << >>, next |-> 0]
JsonOther == [ok |-> FALSE, other |-> TRUE, value |-> << >>, next |-> 0]

\* the digits of the integers that are read
MaxDigits == 9

\* the white space of JSON: space, tab, line feed, carriage return
WhiteSpace == {" ", "U+0009", "U+000A", "U+000D"}

\* the index of the first character from i on that is no white space
SkipWhite(s, i) == RunEnd(s, i, WhiteSpace)

\* the character an escape of two characters stands for
Unescaped ==
    [c \in {"\"", "\\", "/", "b", "f", "n", "r", "t"} |->
        IF c = "b" THEN "U+0008" ELSE IF c = "f" THEN "U+000C"
        ELSE IF c = "n" THEN "U+000A" ELSE IF c = "r" THEN "U+000D"
        ELSE IF c = "t" THEN "U+0009" ELSE c]

\* JSON.parse of a string from the character after its opening quote
RECURSIVE ScanString(_, _, _)
ScanString(s, i, acc) ==
    LET run == RunEnd(s, i, DOMAIN CharCodes \ {"\"", "\\"})
    IN
    IF i > Len(s) THEN JsonFail
    ELSE IF run > i THEN ScanString(s, run, acc \o SubSeq(s, i, run - 1))
    ELSE IF s[i] = "\"" THEN [ok |-> TRUE, other |-> FALSE, value |-> acc, next |-> i + 1]
    ELSE IF s[i] = "\\"
    THEN IF i + 1 > Len(s) THEN JsonFail
         ELSE IF s[i + 1] \in DOMAIN Unescaped
         THEN ScanString(s, i + 2, Append(acc, Unescaped[s[i + 1]]))
         ELSE IF /\ s[i + 1] = "u"
                 /\ i + 5 <= Len(s)
                 /\ \A j \in i + 2 .. i + 5 : s[j] \in DOMAIN HexValues
         THEN ScanString(s, i + 6,
                         Append(acc, CharOf(HexNumber(s[i + 2], s[i + 3], s[i + 4], s[i + 5]))))
         ELSE JsonFail
    ELSE IF s[i] \in DOMAIN CharCodes THEN ScanString(s, i + 1, Append(acc, s[i]))
    ELSE IF CharCode(s[i]) < AsciiBase THEN JsonFail
    ELSE ScanString(s, i + 1, Append(acc, s[i]))

\* JSON.parse of the digits of a non-negative integer
RECURSIVE ScanNumber(_, _, _)
ScanNumber(s, i, acc) ==
    IF i <= Len(s) /\ IsDigit(s[i])
    THEN ScanNumber(s, i + 1, acc * Len(DigitChars) + DigitValue(s[i]))
    ELSE [ok |-> TRUE, other |-> FALSE, value |-> acc, next |-> i]

\* the index of the first character from i on that is no digit
SkipDigits(s, i) == RunEnd(s, i, {DigitChars[d] : d \in 1 .. Len(DigitChars)})

\* the value a scanned string is
StringValue(r) ==
    IF r.ok
    THEN [ok |-> TRUE, other |-> FALSE, next |-> r.next,
          value |-> [kind |-> "string", text |-> r.value, number |-> 0]]
    ELSE JsonFail

\* JSON.parse of the digits from i up to end: a non-negative integer, which
\* has no zero before its digits
NumberValue(s, i, end) ==
    IF s[i] = "0" /\ end > i + 1 THEN JsonFail
    ELSE IF end <= Len(s) /\ s[end] \in {".", "e", "E"} THEN JsonOther
    ELSE IF end - i > MaxDigits THEN JsonOther
    ELSE [ok |-> TRUE, other |-> FALSE, next |-> end,
          value |-> [kind |-> "number", text |-> << >>,
                     number |-> ScanNumber(s, i, 0).value]]

\* JSON.parse of a value: a string or a non-negative integer
JsonValueAt(s, i) ==
    IF i > Len(s) THEN JsonFail
    ELSE IF s[i] = "\"" THEN StringValue(ScanString(s, i + 1, << >>))
    ELSE IF IsDigit(s[i]) THEN NumberValue(s, i, SkipDigits(s, i))
    ELSE IF s[i] \in {"-", "t", "f", "n", "[", "{"} THEN JsonOther
    ELSE JsonFail

RECURSIVE ScanMembers(_, _, _)

\* JSON.parse after the value v of a member: a comma and the next member, or
\* the brace that ends the text
AfterValue(s, members, v, after) ==
    IF ~v.ok THEN v
    ELSE IF after > Len(s) THEN JsonFail
    ELSE IF s[after] = "," THEN ScanMembers(s, SkipWhite(s, after + 1), members)
    ELSE IF s[after] = "}" /\ SkipWhite(s, after + 1) > Len(s)
    THEN [ok |-> TRUE, other |-> FALSE, value |-> members, next |-> Len(s) + 1]
    ELSE JsonFail

\* JSON.parse of the value of the member of name k
MemberValue(s, acc, k, v) ==
    AfterValue(s, Append(acc, [key |-> k.value, value |-> v.value]), v,
               SkipWhite(s, v.next))

\* JSON.parse after the name k of a member: a colon and the value
AfterName(s, acc, k, colon) ==
    IF ~k.ok \/ colon > Len(s) \/ s[colon] # ":" THEN JsonFail
    ELSE MemberValue(s, acc, k, JsonValueAt(s, SkipWhite(s, colon + 1)))

\* JSON.parse of a member whose name is the string k
MemberNamed(s, acc, k) == AfterName(s, acc, k, SkipWhite(s, k.next))

\* JSON.parse of the members of an object from the quote of a name on, up to
\* the brace that ends the text
ScanMembers(s, i, acc) ==
    IF i > Len(s) \/ s[i] # "\"" THEN JsonFail
    ELSE MemberNamed(s, acc, ScanString(s, i + 1, << >>))

\* JSON.parse of a text
JsonParse(s) ==
    LET first == SkipWhite(s, 1)
        member == SkipWhite(s, first + 1)
    IN IF first > Len(s) THEN JsonFail
       ELSE IF s[first] = "{"
       THEN IF member <= Len(s) /\ s[member] = "}"
            THEN IF SkipWhite(s, member + 1) > Len(s)
                 THEN [ok |-> TRUE, other |-> FALSE, value |-> << >>, next |-> Len(s) + 1]
                 ELSE JsonFail
            ELSE ScanMembers(s, member, << >>)
       ELSE IF s[first] = "\"" \/ IsDigit(s[first]) \/ s[first] \in {"-", "t", "f", "n", "["}
       THEN JsonOther
       ELSE JsonFail

\* object[key] of a parsed object: the last member of that key
Absent == [kind |-> "undefined", text |-> << >>, number |-> 0]

Member(object, key) ==
    LET at == {i \in 1 .. Len(object) : object[i].key = key}
    IN IF at = {} THEN Absent
       ELSE object[CHOOSE i \in at : \A j \in at : j <= i].value

\* string.split(sep)
RECURSIVE Split(_, _)
Split(s, sep) ==
    LET at == {i \in 1 .. Len(s) : s[i] = sep}
    IN IF at = {} THEN <<s>>
       ELSE LET first == CHOOSE i \in at : \A j \in at : i <= j
            IN <<SubSeq(s, 1, first - 1)>> \o Split(SubSeq(s, first + 1, Len(s)), sep)

\* the names of the claims of the payload and of the header
EmailKey == <<"e", "m", "a", "i", "l">>
ResetTokenKey == <<"r", "e", "s", "e", "t", "T", "o", "k", "e", "n">>
TypeKey == <<"t", "y", "p", "e">>
IatKey == <<"i", "a", "t">>
ExpKey == <<"e", "x", "p">>
AlgKey == <<"a", "l", "g">>
NbfKey == <<"n", "b", "f">>

\* the types of envelope the process signs
PasswordResetType ==
    <<"p", "a", "s", "s", "w", "o", "r", "d", "-", "r", "e", "s", "e", "t">>
EmailVerificationType ==
    <<"e", "m", "a", "i", "l", "-", "v", "e", "r", "i", "f", "i", "c", "a",
      "t", "i", "o", "n">>

\* the text of a type
TypeText(type) ==
    IF type = "password-reset" THEN PasswordResetType ELSE EmailVerificationType

\* the type of a text
TypeOf(text) ==
    IF text = PasswordResetType THEN "password-reset"
    ELSE IF text = EmailVerificationType THEN "email-verification"
    ELSE "other"

\* the header jsonwebtoken writes: {"alg":"HS256","typ":"JWT"}
JwtHeader ==
    <<"{", "\"", "a", "l", "g", "\"", ":", "\"", "H", "S", "2", "5", "6",
      "\"", ",", "\"", "t", "y", "p", "\"", ":", "\"", "J", "W", "T", "\"",
      "}">>

\* a header that announces an unsigned token: {"alg":"none","typ":"JWT"}
UnsignedHeader ==
    <<"{", "\"", "a", "l", "g", "\"", ":", "\"", "n", "o", "n", "e", "\"",
      ",", "\"", "t", "y", "p", "\"", ":", "\"", "J", "W", "T", "\"", "}">>

\* the algorithms jwt.verify accepts with a secret
HS256 == <<"H", "S", "2", "5", "6">>
HmacAlgorithms == <<HS256, <<"H", "S", "3", "8", "4">>, <<"H", "S", "5", "1", "2">>>>

\* the keys envelopes are signed with: the secret of the process, any other
SigningKeys == <<JWT_SECRET, "another-key">>

\* the HMAC of the signing input, idealised: the signature tells the
\* algorithm, the key and the input, and nothing else yields it
Signature(alg, key, input) ==
    base64urlEncode(
        <<CHOOSE a \in 1 .. Len(HmacAlgorithms) : HmacAlgorithms[a] = alg,
          CHOOSE k \in 1 .. Len(SigningKeys) : SigningKeys[k] = key>>
        \o Bytes(input))

\* JSON.stringify of the payload jwt.sign makes of { email, resetToken, type }:
\* iat is set, then exp = iat + expiresIn
JsonPayload(jwt) ==
    <<"{">> \o JsonString(EmailKey) \o <<":">> \o JsonString(jwt.email)
        \o <<",">> \o JsonString(ResetTokenKey) \o <<":">> \o JsonString(jwt.resetToken)
        \o <<",">> \o JsonString(TypeKey) \o <<":">> \o JsonString(TypeText(jwt.type))
        \o <<",">> \o JsonString(IatKey) \o <<":">>
        \o JsonNumber(jwt.exp - TOKEN_EXPIRY_HOURS * HourSeconds)
        \o <<",">> \o JsonString(ExpKey) \o <<":">> \o JsonNumber(jwt.exp) \o <<"}">>

\* the string jwt.sign returns for an envelope
jwtEncode(jwt) ==
    LET input == base64urlEncode(Bytes(JwtHeader)) \o <<".">>
                     \o base64urlEncode(Bytes(JsonPayload(jwt)))
    IN input \o <<".">> \o Signature(HS256, jwt.key, input)

\* a string jwt.verify throws on before it looks at signature or claims
Undecodable == [kind |-> "string", text |-> "undecodable"]

\* an exp claim that no clock reaches: the payload has none
NeverExpires == ClockTimestamp(MaxClock) + TOKEN_EXPIRY_HOURS * HourSeconds + 1

\* a string that holds JSON which JsonParse does not read, an nbf claim, which
\* jwt.verify would check and jwt.sign never writes here, or an email or a
\* resetToken that is no string: what verifyResetJWT makes of it is not said
Unread == [kind |-> "unread"]

\* the keys under which the signature of the segments is that of the
\* algorithm the header names
KeysOf(parts, alg) ==
    {k \in 1 .. Len(SigningKeys) :
        /\ \E a \in 1 .. Len(HmacAlgorithms) : HmacAlgorithms[a] = alg
        /\ parts[3] = Signature(alg, SigningKeys[k], parts[1] \o <<".">> \o parts[2])}

\* the envelope of claims that were read
JwtOf(keys, email, resetToken, type, exp) ==
    IF exp.kind = "string" THEN Undecodable
    ELSE IF email.kind = "number" \/ resetToken.kind = "number" THEN Unread
    ELSE [kind |-> "jwt",
          email |-> IF email.kind = "string" THEN email.text ELSE Missing,
          resetToken |-> IF resetToken.kind = "string" THEN resetToken.text ELSE Missing,
          type |-> IF type.kind = "string" THEN TypeOf(type.text) ELSE "undefined",
          exp |-> IF exp.kind = "number" THEN exp.number ELSE NeverExpires,
          key |-> SigningKeys[CHOOSE k \in keys : TRUE]]

\* jwt.verify of the segments of a string with its header and its payload
\* parsed: the signature is that of an HMAC algorithm under a key, and the
\* claims are those of the payload
jwtSigned(keys, payload) ==
    IF keys = {} THEN Undecodable
    ELSE IF payload.other THEN Unread
    ELSE IF ~payload.ok THEN Undecodable
    ELSE IF Member(payload.value, NbfKey) # Absent THEN Unread
    ELSE JwtOf(keys, Member(payload.value, EmailKey),
               Member(payload.value, ResetTokenKey), Member(payload.value, TypeKey),
               Member(payload.value, ExpKey))

jwtVerify(parts, header, payload) ==
    IF header.other THEN Unread
    ELSE IF ~header.ok THEN Undecodable
    ELSE jwtSigned(KeysOf(parts, Member(header.value, AlgKey).text), payload)

\* the envelope jwt.verify reads from a string: three segments of base64url
\* characters, the first two not empty and JSON objects, the header as
\* characters of one byte and the payload as UTF-8, the algorithm of the
\* header one of those a secret is accepted with, and the key whose HMAC of
\* the first two segments the third one is
jwtDecode(text) ==
    LET parts == Split(text, ".")
    IN IF Len(parts) # 3 THEN Undecodable
       ELSE IF parts[1] = << >> \/ parts[2] = << >> \/ parts[3] = << >> THEN Undecodable
       ELSE IF ~(IsBase64Url(parts[1]) /\ IsBase64Url(parts[2]) /\ IsBase64Url(parts[3]))
       THEN Undecodable
       ELSE jwtVerify(parts,
                      JsonParse(BinaryTextOf(base64urlDecode(parts[1]))),
                      JsonParse(TextOf(base64urlDecode(parts[2]))))

(***************************************************************************)
(* Reset-token ledger: the synchronous parts of passwordResetUtils.        *)
(***************************************************************************)
\* storeResetToken whose filter spares the used records of the email
StoredTokensKeepingUsed(tokens, email, resetToken, t) ==
    Append(SelectSeq(tokens, LAMBDA r : r.email # email \/ r.used),
           [email |-> email, token |-> resetToken,
            expiresAt |-> t + TOKEN_EXPIRY_HOURS * HourMs, used |-> FALSE])

\* storeResetToken whose filter compares the emails in lower case
StoredTokensCaseInsensitive(tokens, email, resetToken, t) ==
    Append(SelectSeq(tokens, LAMBDA r : ToLowerCase(r.email) # ToLowerCase(email)),
           [email |-> email, token |-> resetToken,
            expiresAt |-> t + TOKEN_EXPIRY_HOURS * HourMs, used |-> FALSE])

\* storeResetToken without the filter: the email's older records stay
StoredTokensKeepingOld(tokens, email, resetToken, t) ==
    Append(tokens,
           [email |-> email, token |-> resetToken,
            expiresAt |-> t + TOKEN_EXPIRY_HOURS * HourMs, used |-> FALSE])

\* storeResetToken that renews the expiry of the records it keeps
StoredTokensRenewing(tokens, email, resetToken, t) ==
    LET kept == SelectSeq(tokens, LAMBDA r : r.email # email)
    IN Append([i \in 1 .. Len(kept) |->
                  [kept[i] EXCEPT !.expiresAt = t + TOKEN_EXPIRY_HOURS * HourMs]],
              [email |-> email, token |-> resetToken,
               expiresAt |-> t + TOKEN_EXPIRY_HOURS * HourMs, used |-> FALSE])

\* storeResetToken: drop the email's records, push the new one
StoredTokens(tokens, email, resetToken, t) ==
    Append(SelectSeq(tokens, LAMBDA r : r.email # email),
           [email |-> email, token |-> resetToken,
            expiresAt |-> t + TOKEN_EXPIRY_HOURS * HourMs, used |-> FALSE])

\* the filter done by removing in place while iterating: the record that
\* follows a removed one is never tested
ValidTokensSkipping(tokens, t) ==
    LET Valid(i) == tokens[i].expiresAt > t /\ ~tokens[i].used
        kept == SelectSeq([i \in 1 .. Len(tokens) |-> i],
                          LAMBDA i : Valid(i) \/ (i > 1 /\ ~Valid(i - 1)))
    IN [j \in 1 .. Len(kept) |-> tokens[kept[j]]]

\* the filter with a record still valid at the instant it expires
ValidTokensInclusive(tokens, t) ==
    SelectSeq(tokens, LAMBDA r : r.expiresAt >= t /\ ~r.used)

\* the filter without its expiry test
ValidTokensIgnoringExpiry(tokens, t) ==
    SelectSeq(tokens, LAMBDA r : ~r.used)

\* the filter of validateResetToken and cleanupExpiredTokens
ValidTokens(tokens, t) ==
    SelectSeq(tokens, LAMBDA r : r.expiresAt > t /\ ~r.used)

\* validTokens.find(...) of validateResetToken, as !!token
TokenFound(validTokens, email, resetToken) ==
    \E i \in 1 .. Len(validTokens) :
        /\ validTokens[i].email = email
        /\ validTokens[i].token = resetToken
        /\ ~validTokens[i].used

\* markTokenAsUsed: index of the record, 0 when there is none
TokenIndex(tokens, email, resetToken) ==
    FindIndex({i \in 1 .. Len(tokens) :
                  tokens[i].email = email /\ tokens[i].token = resetToken})

\* markTokenAsUsed that deletes the record instead of flagging it
MarkedTokensRemoved(tokens, email, resetToken) ==
    SelectSeq(tokens, LAMBDA r : ~(r.email = email /\ r.token = resetToken))

\* markTokenAsUsed that leaves the record as it is
MarkedTokensUnchanged(tokens, email, resetToken) == tokens

MarkedTokens(tokens, email, resetToken) ==
    [tokens EXCEPT ![TokenIndex(tokens, email, resetToken)].used = TRUE]

\* users.findIndex(u => u.email.toLowerCase() === email.toLowerCase())
UserIndex(us, email) ==
    FindIndex({i \in 1 .. Len(us) : ToLowerCase(us[i].email) = ToLowerCase(email)})

(***************************************************************************)
(* Responses.                                                              *)
(***************************************************************************)
Response(status, message) == [status |-> status, message |-> message]
NoResponse == Response(0, "")
InvalidEmail == Response(400, "Please provide a valid email address")
\* a response that tells the caller the email is unknown
ResetSentNoUserRevealed == Response(404, "No account found with that email address")
\* forgot-password, no such user
ResetSentNoUser ==
    Response(200, "If an account with that email exists, a password reset link has been sent.")
\* forgot-password, email handed to the delivery capability
ResetSent ==
    Response(200, "If an account with that email exists, a password reset link has been sent.")
\* the failed send masked by the generic success response
SendFailedMasked == ResetSent
SendFailed == Response(500, "Failed to send password reset email. Please try again later.")
TokenRequired == Response(400, "Reset token is required")
PasswordTooShort == Response(400, "Password must be at least 6 characters long")
InvalidTokenJwt == Response(400, "Invalid or expired reset token")
InvalidTokenLedger == Response(400, "Invalid or expired reset token")
\* the missing user reported as an invalid token
UserNotFoundMasked == Response(400, "Invalid or expired reset token")
\* the missing user reported as an internal error
UserNotFoundServerError == Response(500, "An error occurred. Please try again.")
UserNotFound == Response(404, "User not found")
UpdateFailed == Response(500, "Failed to update password")
ResetDone == Response(200, "Password has been reset successfully")

(***************************************************************************)
(* The files of the data directory: fs.writeFile of                        *)
(* JSON.stringify(data, null, 2), read back with JSON.parse.               *)
(***************************************************************************)
Files == {"users.json", "resetTokens.json", "todos.json"}

RECURSIVE Sum(_)
Sum(lengths) == IF lengths = << >> THEN 0 ELSE Head(lengths) + Sum(Tail(lengths))

\* the bytes of JSON.stringify(array, null, 2) for records of the given
\* lengths: "[]", or "[" and a newline, the records at indent 2 joined by a
\* comma and a newline, a newline and "]"
JsonLength(lengths) ==
    IF lengths = << >> THEN 2 ELSE 2 + Sum(lengths) + 2 * Len(lengths)

\* the bytes of resetTokens.json: a record has 150 bytes of braces, keys,
\* indentation, the 64 hex digits of its token and the 13 digits of its
\* expiresAt, the letters of its email and "true" or "false"
TokensLength(ledger) ==
    JsonLength([i \in 1 .. Len(ledger) |->
                   150 + Len(ledger[i].email) + IF ledger[i].used THEN 4 ELSE 5])

\* the bytes of users.json: a record has 169 bytes of braces, keys,
\* indentation, the 36 characters of its id and the 60 of its bcrypt hash,
\* and the letters of its name and email
UsersLength(us) ==
    JsonLength([i \in 1 .. Len(us) |-> 169 + Len(us[i].name) + Len(us[i].email)])

\* what a read returns after fs.writeFile has written the `length` bytes of
\* data from offset 0 into its file, which holds `size` bytes by then (0 when
\* nothing was written since the file was opened): the data, or [] when
\* the end of a longer write stands behind them, JSON.parse throws and
\* readDataFromFile returns []
Written(data, length, size) == IF length >= size THEN data ELSE << >>

\* the bytes the file holds after that write
WrittenSize(length, size) == IF length >= size THEN length ELSE size

(***************************************************************************)
(* State.                                                                  *)
(***************************************************************************)
VARIABLES
    serverless,   \* isServerless(): memoryStorage instead of the data directory
    now,          \* Date.now()
    users,        \* what a read of users returns: memoryStorage.users or data/users.json
    resetTokens,  \* what a read of resetTokens returns: the memory store or the file
    nextToken,    \* the next value of generateResetToken
    pc,           \* where each handler stands
    req,          \* the handler's request and the locals taken from it
    tokens,       \* the handler's local token array waiting to be written
    usersRead,    \* the handler's local users array
    res,          \* the response the handler returned
    cleanerPc,    \* where cleanupExpiredTokens stands
    cleanerTokens,\* its local token array waiting to be written
    sendCalls,    \* history: the calls of sendPasswordResetEmail
    resets,       \* history: password writes per reset token
    dones,        \* history: success responses per reset token
    pre,          \* history: the request's envelope and the state it met
    bg,           \* the promises no handler awaits
    nodeEnv,      \* process.env.NODE_ENV
    nextUuid,     \* the next value of uuidv4
    newUser,      \* the registration handler's newUser
    forgotPage,   \* the React state of the forgot-password page
    resetPage,    \* the React state of the reset-password page
    cleanupFailed,\* history: a write of cleanupExpiredTokens has failed
    todos,        \* the todos.json collection
    todoTask,     \* where each todo handler stands, with its local array
    todoCalls,    \* the number of todo requests received
    unsaved,      \* history: the tokens of the resets whose write of users.json failed
    fileSize,     \* the bytes each file of the data directory holds
    faults,       \* the number of collaborator calls that failed
    codec         \* the envelope strings that were signed and the last one verified

vars == <<serverless, now, users, resetTokens, nextToken, pc, req, tokens,
          usersRead, res, cleanerPc, cleanerTokens, sendCalls, resets,
          dones, pre, bg, nodeEnv, nextUuid, newUser, forgotPage, resetPage,
          cleanupFailed, todos, todoTask, todoCalls, unsaved, fileSize, faults,
          codec>>

\* what the handlers of the reset flow and the scheduler never write
elsewhere == <<nodeEnv, nextUuid, newUser, forgotPage, resetPage, cleanupFailed,
               todos, todoTask, todoCalls, unsaved, codec>>

\* the sizes of the data directory's files and the failures so far
disk == <<fileSize, faults>>

\* fs.writeFile has opened resetTokens.json with flag 'w', which truncates it:
\* until bytes are written a read finds an empty file, JSON.parse throws and
\* readDataFromFile returns []
TokensFileTruncate ==
    /\ resetTokens' = EmptyTokens
    /\ fileSize' = [fileSize EXCEPT !["resetTokens.json"] = 0]

\* fs.writeFile writes JSON.stringify(data, null, 2) into resetTokens.json
TokensFileWrite(data) ==
    /\ resetTokens' = Written(data, TokensLength(data), fileSize["resetTokens.json"])
    /\ fileSize' = [fileSize EXCEPT
                       !["resetTokens.json"] = WrittenSize(TokensLength(data), @)]

\* fs.writeFile has opened users.json
UsersFileTruncate ==
    /\ users' = << >>
    /\ fileSize' = [fileSize EXCEPT !["users.json"] = 0]

\* fs.writeFile writes JSON.stringify(data, null, 2) into users.json
UsersFileWrite(data) ==
    /\ users' = Written(data, UsersLength(data), fileSize["users.json"])
    /\ fileSize' = [fileSize EXCEPT !["users.json"] = WrittenSize(UsersLength(data), @)]

\* a collaborator fails: the number of failures is bounded
Fault ==
    /\ faults < MaxFaults
    /\ faults' = faults + 1

\* the promise of a call that has settled
NoTask == [stage |-> "idle", email |-> Missing, resetToken |-> 0, tokens |-> EmptyTokens]

NoRequest ==
    [handler |-> "none", email |-> Missing, resetToken |-> 0,
     jwtToken |-> NoJWT, password |-> NoPassword]

Snapshot(token) ==
    [now |-> now, resetTokens |-> resetTokens, users |-> users, jwtToken |-> token,
     sendCalls |-> sendCalls, dones |-> dones]
NoSnapshot ==
    [now |-> 0, resetTokens |-> EmptyTokens, users |-> << >>, jwtToken |-> NoJWT,
     sendCalls |-> {}, dones |-> << >>]

Ready(p) == pc[p] = "idle"

Bump(count, token) ==
    [count EXCEPT ![token] = IF @ < MaxResets THEN @ + 1 ELSE @]

\* a slot of todoTask with no todo handler in it
NoTodoTask == [stage |-> "idle", op |-> "none", todos |-> << >>, status |-> 0]

\* a slot of newUser with no registration in it
NoUser == [id |-> "", name |-> "", email |-> Missing, password |-> BcryptHash("")]

\* useState(...) of the forgot-password page
ClosedForgotPage ==
    [step |-> "idle", email |-> << >>, loading |-> FALSE, message |-> "", error |-> ""]

\* useState(...) of the reset-password page, before its effect has run; timers
\* is the number of setTimeout calls of handleSubmit that are pending and away
\* whether router.push has left the page while its fetch is out; param is the token
\* parameter of the page's URL, and verified and validAtOpen are history:
\* whether verifyResetJWT and validateResetToken would have accepted it when
\* the page was opened
ClosedResetPage ==
    [step |-> "closed", token |-> EmptyString, tokenValid |-> FALSE,
     password |-> "", confirmPassword |-> "", loading |-> FALSE,
     message |-> "", error |-> "", timers |-> 0, away |-> FALSE,
     param |-> NoJWT, verified |-> FALSE, validAtOpen |-> FALSE]

\* no envelope was signed and none verified
NoCodec ==
    [issued |-> {},
     unwrapped |-> [kind |-> "none", text |-> << >>, at |-> 0, result |-> NoDecoded]]

NodeEnvs == {"development", "production"}

\* isServerless(): NODE_ENV === 'production' selects the memory store; in
\* development VERCEL, AWS_LAMBDA_FUNCTION_NAME or FUNCTIONS_EMULATOR may
\* select it as well
ServerlessIn(env) == IF env = "production" THEN {TRUE} ELSE BOOLEAN

\* the process as it starts with NODE_ENV = env
Started(env) ==
    /\ nodeEnv = env
    /\ serverless \in ServerlessIn(env)
    /\ now = 0
    /\ users = IF serverless THEN InitialUsers ELSE << >>
    /\ resetTokens = EmptyTokens
    /\ nextToken = 1
    /\ pc = [p \in Procs |-> "idle"]
    /\ req = [p \in Procs |-> NoRequest]
    /\ tokens = [p \in Procs |-> EmptyTokens]
    /\ usersRead = [p \in Procs |-> << >>]
    /\ res = [p \in Procs |-> NoResponse]
    /\ cleanerPc = "idle"
    /\ cleanerTokens = EmptyTokens
    /\ sendCalls = {}
    /\ resets = [t \in 0 .. MaxTokens |-> 0]
    /\ dones = [t \in 0 .. MaxTokens |-> 0]
    /\ pre = [p \in Procs |-> NoSnapshot]
    /\ bg = EmptyBag
    /\ nextUuid = 1
    /\ newUser = [p \in Procs |-> NoUser]
    /\ forgotPage = ClosedForgotPage
    /\ resetPage = ClosedResetPage
    /\ cleanupFailed = FALSE
    /\ todos = << >>
    /\ todoTask = [p \in Procs |-> NoTodoTask]
    /\ todoCalls = 0
    /\ unsaved = {}
    /\ fileSize = [f \in Files |-> 0]
    /\ faults = 0
    /\ codec = NoCodec

\* the development server, where the cleanup scheduler runs
Init == Started("development")

\* the handler returns NextResponse.json(...)
Respond(p, response) ==
    /\ res' = [res EXCEPT ![p] = response]
    /\ pc' = [pc EXCEPT ![p] = "done"]
    /\ tokens' = [tokens EXCEPT ![p] = EmptyTokens]
    /\ usersRead' = [usersRead EXCEPT ![p] = << >>]

\* the handler suspends at its next await
Goto(p, label) ==
    /\ pc' = [pc EXCEPT ![p] = label]
    /\ res' = [res EXCEPT ![p] = NoResponse]

\* Date.now() advances
Tick ==
    /\ now < MaxClock
    /\ now' = now + 1
    /\ UNCHANGED <<disk, elsewhere, bg, serverless, users, resetTokens, nextToken, pc, req, tokens,
                   usersRead, res, cleanerPc, cleanerTokens, sendCalls,
                   resets, dones, pre>>

(***************************************************************************)
(* POST forgot-password.                                                   *)
(***************************************************************************)
\* request.json(), the email check, the users lookup, generateResetToken and
\* createResetJWT, up to the load of storeResetToken
ForgotBegin(p, email) ==
    /\ Ready(p)
    /\ IF FalsyEmail(email) \/ ~Includes(email, "@")
       THEN /\ req' = [req EXCEPT ![p] = [NoRequest EXCEPT !.handler = "forgot", !.email = email]]
            /\ Respond(p, InvalidEmail)
            /\ UNCHANGED nextToken
       ELSE IF UserIndex(users, email) = 0
       THEN /\ req' = [req EXCEPT ![p] = [NoRequest EXCEPT !.handler = "forgot", !.email = email]]
            /\ Respond(p, ResetSentNoUser)
            /\ UNCHANGED nextToken
       ELSE /\ nextToken <= MaxTokens
            /\ req' = [req EXCEPT ![p] =
                         [handler |-> "forgot", email |-> email, resetToken |-> nextToken,
                          jwtToken |-> createResetJWT(email, nextToken, now),
                          password |-> NoPassword]]
            /\ nextToken' = nextToken + 1
            /\ Goto(p, "store_load")
            /\ UNCHANGED <<tokens, usersRead>>
    /\ UNCHANGED <<disk, elsewhere, bg, serverless, now, users, resetTokens, cleanerPc, cleanerTokens,
                   sendCalls, resets, dones>>

\* sendPasswordResetEmail(email, resetToken, getResetUrl(jwtToken)) is called
CallSend(p) ==
    sendCalls' = sendCalls \cup
        {[email |-> req[p].email, resetToken |-> req[p].resetToken,
          resetUrl |-> getResetUrl(req[p].jwtToken)]}

\* the handler's code behind storeResetToken: getResetUrl and the call of
\* sendPasswordResetEmail, which the handler awaits
AwaitSend(p) ==
    /\ CallSend(p)
    /\ Goto(p, "send")
    /\ tokens' = [tokens EXCEPT ![p] = EmptyTokens]
    /\ UNCHANGED usersRead

\* sendPasswordResetEmail resolves or throws and the handler answers
SendEmail(p, delivered) ==
    /\ pc[p] = "send"
    /\ Respond(p, IF delivered THEN ResetSent ELSE SendFailed)
    /\ UNCHANGED <<disk, elsewhere, bg, serverless, now, users, resetTokens, nextToken, req,
                   cleanerPc, cleanerTokens, sendCalls, resets, dones, pre>>

\* storeResetToken after loadResetTokens: filter, push, saveResetTokens.  The
\* memory store is assigned at once, the file is written later.
StoreLoad(p) ==
    /\ pc[p] = "store_load"
    /\ LET filteredTokens ==
              StoredTokens(resetTokens, req[p].email, req[p].resetToken, now)
       IN IF serverless
          THEN /\ resetTokens' = filteredTokens
               /\ AwaitSend(p)
          ELSE /\ tokens' = [tokens EXCEPT ![p] = filteredTokens]
               /\ Goto(p, "store_save")
               /\ UNCHANGED <<resetTokens, usersRead, sendCalls>>
    /\ UNCHANGED <<disk, elsewhere, bg, serverless, now, users, nextToken, req, cleanerPc,
                   cleanerTokens, resets, dones, pre>>

\* the label of a handler whose fs.writeFile has opened its file
Landing(label) ==
    IF label = "store_save" THEN "store_land"
    ELSE IF label = "validate_save" THEN "validate_land"
    ELSE IF label = "mark_save" THEN "mark_land"
    ELSE IF label = "users_save" THEN "users_land"
    ELSE IF label = "register_save" THEN "register_land"
    ELSE label

\* fs.writeFile of a handler opens resetTokens.json, which truncates it: until
\* the content is written a read finds an empty file, JSON.parse throws and
\* readDataFromFile returns []
TokensFileOpen(p) ==
    /\ pc[p] \in {"store_save", "validate_save", "mark_save"}
    /\ TokensFileTruncate
    /\ Goto(p, Landing(pc[p]))
    /\ UNCHANGED <<faults, elsewhere, bg, serverless, now, users, nextToken, req, tokens, usersRead,
                   cleanerPc, cleanerTokens, sendCalls, resets, dones, pre>>

\* the write of resetTokens.json lands; the handler goes on to send the email
StoreSave(p) ==
    /\ pc[p] = "store_land"
    /\ TokensFileWrite(tokens[p])
    /\ AwaitSend(p)
    /\ UNCHANGED <<faults, elsewhere, bg, serverless, now, users, nextToken, req, cleanerPc,
                   cleanerTokens, resets, dones, pre>>

(***************************************************************************)
(* POST reset-password.                                                    *)
(***************************************************************************)
\* the envelopes a client can present: those that were mailed, the same with
\* another signing key, another purpose tag or signed again an hour later,
\* a correctly signed envelope for a secret that was never stored, and
\* what is no envelope at all
Variants(jwtToken) ==
    {jwtToken,
     [jwtToken EXCEPT !.key = "another-key"],
     [jwtToken EXCEPT !.type = "email-verification"],
     [jwtToken EXCEPT !.exp = @ + TOKEN_EXPIRY_HOURS * HourSeconds]}

TokenInputs ==
    {NoJWT, EmptyString, MalformedToken, createResetJWT(EmailA, 0, now)}
        \cup UNION {Variants(c.resetUrl.token) : c \in sendCalls}

\* a test that lets the empty string through
FalsyTokenUndefinedOnly(token) == token = NoJWT

\* !token
FalsyToken(token) == token = NoJWT \/ token = EmptyString

\* request.json(), the input checks and verifyResetJWT, up to the load of
\* validateResetToken
ResetBegin(p, token, password) ==
    /\ Ready(p)
    /\ LET decoded == verifyResetJWT(token, now)
           request == [NoRequest EXCEPT !.handler = "reset", !.jwtToken = token,
                                        !.password = password]
       IN IF FalsyToken(token)
          THEN /\ req' = [req EXCEPT ![p] = request]
               /\ Respond(p, TokenRequired)
          ELSE IF ShortPassword(password)
          THEN /\ req' = [req EXCEPT ![p] = request]
               /\ Respond(p, PasswordTooShort)
          ELSE IF decoded = NoDecoded
          THEN /\ req' = [req EXCEPT ![p] = request]
               /\ Respond(p, InvalidTokenJwt)
          ELSE /\ req' = [req EXCEPT ![p] =
                            [request EXCEPT !.email = decoded.email,
                                            !.resetToken = decoded.resetToken,
                                            !.jwtToken = NoJWT]]
               /\ Goto(p, "validate_load")
               /\ UNCHANGED <<tokens, usersRead>>
    /\ UNCHANGED <<disk, elsewhere, bg, serverless, now, users, resetTokens, nextToken, cleanerPc,
                   cleanerTokens, sendCalls, resets, dones>>

\* the handler's code behind validateResetToken: the 400, or the users read
Validated(p, valid) ==
    IF valid
    THEN /\ Goto(p, "users_read")
         /\ tokens' = [tokens EXCEPT ![p] = EmptyTokens]
         /\ UNCHANGED usersRead
    ELSE Respond(p, InvalidTokenLedger)

\* validateResetToken after loadResetTokens: the filter, the save when a
\* record was dropped, the find
ValidateLoad(p) ==
    /\ pc[p] = "validate_load"
    /\ LET validTokens == ValidTokens(resetTokens, now)
       IN IF Len(validTokens) # Len(resetTokens) /\ ~serverless
          THEN /\ tokens' = [tokens EXCEPT ![p] = validTokens]
               /\ Goto(p, "validate_save")
               /\ UNCHANGED <<resetTokens, usersRead>>
          ELSE /\ resetTokens' = IF Len(validTokens) # Len(resetTokens)
                                 THEN validTokens ELSE resetTokens
               /\ Validated(p, TokenFound(validTokens, req[p].email, req[p].resetToken))
    /\ UNCHANGED <<disk, elsewhere, bg, serverless, now, users, nextToken, req, cleanerPc, cleanerTokens,
                   sendCalls, resets, dones, pre>>

\* the write of the filtered resetTokens.json lands
ValidateSave(p) ==
    /\ pc[p] = "validate_land"
    /\ TokensFileWrite(tokens[p])
    /\ Validated(p, TokenFound(tokens[p], req[p].email, req[p].resetToken))
    /\ UNCHANGED <<faults, elsewhere, bg, serverless, now, users, nextToken, req, cleanerPc, cleanerTokens,
                   sendCalls, resets, dones, pre>>

\* the users read, findIndex and the 404; bcrypt.hash is started
UsersRead(p) ==
    /\ pc[p] = "users_read"
    /\ IF UserIndex(users, req[p].email) = 0
       THEN Respond(p, UserNotFound)
       ELSE /\ usersRead' = [usersRead EXCEPT ![p] = users]
            /\ Goto(p, "users_save")
            /\ UNCHANGED tokens
    /\ UNCHANGED <<disk, elsewhere, bg, serverless, now, users, resetTokens, nextToken, req, cleanerPc,
                   cleanerTokens, sendCalls, resets, dones, pre>>

\* the users read when reading data/users.json fails (the file is missing or
\* does not parse): readDataFromFile returns [], findIndex finds nothing
UsersReadFault(p) ==
    /\ pc[p] = "users_read"
    /\ ~serverless
    /\ Fault
    /\ IF UserIndex(<< >>, req[p].email) = 0
       THEN Respond(p, UserNotFound)
       ELSE /\ usersRead' = [usersRead EXCEPT ![p] = << >>]
            /\ Goto(p, "users_save")
            /\ UNCHANGED tokens
    /\ UNCHANGED <<fileSize, elsewhere, bg, serverless, now, users, resetTokens, nextToken, req, cleanerPc,
                   cleanerTokens, sendCalls, resets, dones, pre>>

\* users[userIndex].password = hashedPassword on the array that was read
UpdatedUsers(us, email, password) ==
    [us EXCEPT ![UserIndex(us, email)].password = BcryptHash(password)]

\* fs.writeFile of the reset handler (the hash is ready and the user object
\* updated) or of the registration handler opens users.json, which truncates
\* it; newUser and the like are the registration's
UsersFileOpen(p) ==
    /\ pc[p] \in {"users_save", "register_save"}
    /\ ~serverless
    /\ UsersFileTruncate
    /\ Goto(p, Landing(pc[p]))
    /\ UNCHANGED <<faults, elsewhere, bg, serverless, now, resetTokens, nextToken, req, tokens,
                   usersRead, cleanerPc, cleanerTokens, sendCalls, resets, dones, pre>>

\* the updated users are stored: the memory store hands out its own array,
\* which is updated in place once the hash is ready, the write of users.json
\* lands; the handler goes on to markTokenAsUsed
UsersSave(p) ==
    /\ pc[p] = IF serverless THEN "users_save" ELSE "users_land"
    /\ IF serverless
       THEN /\ users' = [users EXCEPT ![UserIndex(usersRead[p], req[p].email)].password =
                                          BcryptHash(req[p].password)]
            /\ UNCHANGED fileSize
       ELSE UsersFileWrite(UpdatedUsers(usersRead[p], req[p].email, req[p].password))
    /\ resets' = Bump(resets, req[p].resetToken)
    /\ usersRead' = [usersRead EXCEPT ![p] = << >>]
    /\ Goto(p, "mark_load")
    /\ UNCHANGED <<faults, elsewhere, bg, serverless, now, resetTokens, nextToken, req, tokens, cleanerPc,
                   cleanerTokens, sendCalls, dones, pre>>

\* the handler returns the success response
Succeed(p) ==
    /\ Respond(p, ResetDone)
    /\ dones' = Bump(dones, req[p].resetToken)

\* markTokenAsUsed after loadResetTokens: findIndex, used = true, save
MarkLoad(p) ==
    /\ pc[p] = "mark_load"
    /\ IF TokenIndex(resetTokens, req[p].email, req[p].resetToken) = 0
       THEN /\ Succeed(p)
            /\ UNCHANGED resetTokens
       ELSE IF serverless
       THEN /\ resetTokens' = MarkedTokens(resetTokens, req[p].email, req[p].resetToken)
            /\ Succeed(p)
       ELSE /\ tokens' = [tokens EXCEPT ![p] =
                            MarkedTokens(resetTokens, req[p].email, req[p].resetToken)]
            /\ Goto(p, "mark_save")
            /\ UNCHANGED <<resetTokens, usersRead, dones>>
    /\ UNCHANGED <<disk, elsewhere, bg, serverless, now, users, nextToken, req, cleanerPc, cleanerTokens,
                   sendCalls, resets, pre>>

\* the write of the marked resetTokens.json lands
MarkSave(p) ==
    /\ pc[p] = "mark_land"
    /\ TokensFileWrite(tokens[p])
    /\ Succeed(p)
    /\ UNCHANGED <<faults, elsewhere, bg, serverless, now, users, nextToken, req, cleanerPc, cleanerTokens,
                   sendCalls, resets, pre>>

(***************************************************************************)
(* POST /api/auth/reset-password of app/api/auth/reset-password/route.ts,  *)
(* which reads and writes data/users.json with fs and calls                *)
(* validateResetToken and markTokenAsUsed without await.                   *)
(***************************************************************************)
\* the dropped promises that are pending
Pending == BagCardinality(bg)

\* an async function is called and its promise dropped: the call runs up to
\* its first await and the rest is left pending
Spawned(stage, email, resetToken) ==
    bg (+) SetToBag({[NoTask EXCEPT !.stage = stage, !.email = email,
                                    !.resetToken = resetToken]})

\* a pending call runs on to its next await, or settles
Advanced(task, next) ==
    (bg (-) SetToBag({task})) (+) (IF next = NoTask THEN EmptyBag ELSE SetToBag({next}))

\* !validateResetToken(email, resetToken): the operand is a Promise object,
\* which is truthy whatever it resolves to
PromiseFalsy == FALSE

\* request.json(), the input checks, verifyResetJWT, the call of
\* validateResetToken, loadUsers and findIndex, up to the await of bcrypt.hash.
\* The handler drops two promises (validateResetToken here, markTokenAsUsed
\* in RouteSave): MaxBg bounds the number of pending promises, and a request
\* that would exceed it is not made.
RouteBegin(p, token, password) ==
    /\ Ready(p)
    /\ ~serverless
    /\ Pending + 2 <= MaxBg
    /\ LET decoded == verifyResetJWT(token, now)
           request == [NoRequest EXCEPT !.handler = "reset", !.jwtToken = token,
                                        !.password = password]
       IN IF FalsyToken(token)
          THEN /\ req' = [req EXCEPT ![p] = request]
               /\ Respond(p, TokenRequired)
               /\ UNCHANGED bg
          ELSE IF ShortPassword(password)
          THEN /\ req' = [req EXCEPT ![p] = request]
               /\ Respond(p, PasswordTooShort)
               /\ UNCHANGED bg
          ELSE IF decoded = NoDecoded
          THEN /\ req' = [req EXCEPT ![p] = request]
               /\ Respond(p, InvalidTokenJwt)
               /\ UNCHANGED bg
          ELSE /\ bg' = Spawned("validate_load", decoded.email, decoded.resetToken)
               /\ req' = [req EXCEPT ![p] =
                            [request EXCEPT !.email = decoded.email,
                                            !.resetToken = decoded.resetToken,
                                            !.jwtToken = NoJWT]]
               /\ IF PromiseFalsy
                  THEN Respond(p, InvalidTokenLedger)
                  ELSE IF UserIndex(users, decoded.email) = 0
                  THEN Respond(p, UserNotFound)
                  ELSE /\ usersRead' = [usersRead EXCEPT ![p] = users]
                       /\ Goto(p, "route_hash")
                       /\ UNCHANGED tokens
    /\ UNCHANGED <<disk, elsewhere, serverless, now, users, resetTokens, nextToken, cleanerPc,
                   cleanerTokens, sendCalls, resets, dones>>

\* POST forgot-password of the handler that reads users.json with fs:
\* request.json(), the email check, loadUsers, generateResetToken,
\* createResetJWT, the call of storeResetToken, whose promise is dropped, and
\* the call of sendPasswordResetEmail, which is awaited
RouteForgotBegin(p, email) ==
    /\ Ready(p)
    /\ ~serverless
    /\ Pending + 1 <= MaxBg
    /\ IF FalsyEmail(email) \/ ~Includes(email, "@")
       THEN /\ req' = [req EXCEPT ![p] = [NoRequest EXCEPT !.handler = "forgot", !.email = email]]
            /\ Respond(p, InvalidEmail)
            /\ UNCHANGED <<nextToken, bg, sendCalls>>
       ELSE IF UserIndex(users, email) = 0
       THEN /\ req' = [req EXCEPT ![p] = [NoRequest EXCEPT !.handler = "forgot", !.email = email]]
            /\ Respond(p, ResetSentNoUser)
            /\ UNCHANGED <<nextToken, bg, sendCalls>>
       ELSE /\ nextToken <= MaxTokens
            /\ req' = [req EXCEPT ![p] =
                         [handler |-> "forgot", email |-> email, resetToken |-> nextToken,
                          jwtToken |-> createResetJWT(email, nextToken, now),
                          password |-> NoPassword]]
            /\ nextToken' = nextToken + 1
            /\ bg' = Spawned("store_load", email, nextToken)
            /\ sendCalls' = sendCalls \cup
                   {[email |-> email, resetToken |-> nextToken,
                     resetUrl |-> getResetUrl(createResetJWT(email, nextToken, now))]}
            /\ Goto(p, "send")
            /\ UNCHANGED <<tokens, usersRead>>
    /\ UNCHANGED <<disk, elsewhere, serverless, now, users, resetTokens, cleanerPc, cleanerTokens,
                   resets, dones>>

\* the hash is ready: the user object is updated, saveUsers writes users.json,
\* markTokenAsUsed is called and the success response returned
RouteSave(p) ==
    /\ pc[p] = "route_hash"
    /\ users' = UpdatedUsers(usersRead[p], req[p].email, req[p].password)
    /\ fileSize' = [fileSize EXCEPT !["users.json"] = UsersLength(users')]
    /\ resets' = Bump(resets, req[p].resetToken)
    /\ bg' = Spawned("mark_load", req[p].email, req[p].resetToken)
    /\ Succeed(p)
    /\ UNCHANGED <<faults, elsewhere, serverless, now, resetTokens, nextToken, req, cleanerPc,
                   cleanerTokens, sendCalls, pre>>

\* the pending validateResetToken after loadResetTokens: the filter and, when
\* it dropped a record, the start of the write; the result goes nowhere
BgValidateLoad(task) ==
    /\ task \in BagToSet(bg)
    /\ task.stage = "validate_load"
    /\ LET validTokens == ValidTokens(resetTokens, now)
       IN bg' = Advanced(task,
                    IF Len(validTokens) # Len(resetTokens)
                    THEN [task EXCEPT !.stage = "validate_save", !.tokens = validTokens]
                    ELSE NoTask)
    /\ UNCHANGED <<disk, elsewhere, serverless, now, users, resetTokens, nextToken, pc, req, tokens,
                   usersRead, res, cleanerPc, cleanerTokens, sendCalls, resets,
                   dones, pre>>

\* the pending markTokenAsUsed after loadResetTokens: findIndex, used = true
\* and the start of the write
BgMarkLoad(task) ==
    /\ task \in BagToSet(bg)
    /\ task.stage = "mark_load"
    /\ bg' = Advanced(task,
                IF TokenIndex(resetTokens, task.email, task.resetToken) = 0
                THEN NoTask
                ELSE [task EXCEPT !.stage = "mark_save",
                                  !.tokens = MarkedTokens(resetTokens, task.email,
                                                          task.resetToken)])
    /\ UNCHANGED <<disk, elsewhere, serverless, now, users, resetTokens, nextToken, pc, req, tokens,
                   usersRead, res, cleanerPc, cleanerTokens, sendCalls, resets,
                   dones, pre>>

\* the pending storeResetToken after loadResetTokens: filter, push and the
\* start of the write
BgStoreLoad(task) ==
    /\ task \in BagToSet(bg)
    /\ task.stage = "store_load"
    /\ bg' = Advanced(task,
                [task EXCEPT !.stage = "store_save",
                             !.tokens = StoredTokens(resetTokens, task.email,
                                                     task.resetToken, now)])
    /\ UNCHANGED <<disk, elsewhere, serverless, now, users, resetTokens, nextToken, pc, req, tokens,
                   usersRead, res, cleanerPc, cleanerTokens, sendCalls, resets,
                   dones, pre>>

\* fs.writeFile of a pending promise opens resetTokens.json, which truncates it
BgFileOpen(task) ==
    /\ task \in BagToSet(bg)
    /\ task.stage \in {"store_save", "validate_save", "mark_save"}
    /\ TokensFileTruncate
    /\ bg' = Advanced(task, [task EXCEPT !.stage = Landing(@)])
    /\ UNCHANGED <<faults, elsewhere, serverless, now, users, nextToken, pc, req, tokens, usersRead,
                   res, cleanerPc, cleanerTokens, sendCalls, resets, dones, pre>>

\* the write of a pending promise lands in resetTokens.json
BgSave(task) ==
    /\ task \in BagToSet(bg)
    /\ task.stage \in {"store_land", "validate_land", "mark_land"}
    /\ TokensFileWrite(task.tokens)
    /\ bg' = Advanced(task, NoTask)
    /\ UNCHANGED <<faults, elsewhere, serverless, now, users, nextToken, pc, req, tokens, usersRead,
                   res, cleanerPc, cleanerTokens, sendCalls, resets, dones, pre>>

(***************************************************************************)
(* cleanupExpiredTokens, run by the cleanup scheduler.                     *)
(***************************************************************************)
CleanupLoad ==
    /\ cleanerPc = "idle"
    /\ LET validTokens == ValidTokens(resetTokens, now)
       IN /\ Len(validTokens) # Len(resetTokens)
          /\ IF serverless
             THEN /\ resetTokens' = validTokens
                  /\ UNCHANGED <<cleanerPc, cleanerTokens>>
             ELSE /\ cleanerTokens' = validTokens
                  /\ cleanerPc' = "cleanup_save"
                  /\ UNCHANGED resetTokens
    /\ UNCHANGED <<disk, elsewhere, bg, serverless, now, users, nextToken, pc, req, tokens, usersRead,
                   res, sendCalls, resets, dones, pre>>

\* fs.writeFile of cleanupExpiredTokens opens resetTokens.json, which
\* truncates it
CleanupFileOpen ==
    /\ cleanerPc = "cleanup_save"
    /\ TokensFileTruncate
    /\ cleanerPc' = "cleanup_land"
    /\ UNCHANGED <<faults, elsewhere, bg, serverless, now, users, nextToken, pc, req, tokens, usersRead,
                   res, cleanerTokens, sendCalls, resets, dones, pre>>

\* the write of the filtered resetTokens.json lands
CleanupSave ==
    /\ cleanerPc = "cleanup_land"
    /\ TokensFileWrite(cleanerTokens)
    /\ cleanerPc' = "idle"
    /\ cleanerTokens' = EmptyTokens
    /\ UNCHANGED <<faults, elsewhere, bg, serverless, now, users, nextToken, pc, req, tokens, usersRead,
                   res, sendCalls, resets, dones, pre>>

(***************************************************************************)
(* POST register.                                                          *)
(***************************************************************************)
\* number of users a run can register (bound)
MaxRegistrations == 2

\* uuidv4(): a fresh id at every call
Uuid(n) == IF n = 1 THEN "uuid-1" ELSE IF n = 2 THEN "uuid-2" ELSE "uuid-3"

RegisterNames == {"", "New User"}
RegisterEmails == {<< >>, EmailA, EmailAUpper, EmailNone}
RegisterPasswords == {"", "123456"}

FieldsRequired == Response(400, "Name, email, and password are required")
UserExists == Response(409, "User with this email already exists")
UserCreated == Response(200, "User created successfully")
CreateFailed == Response(500, "Failed to create user")

\* findUserByEmail: users.find(user => user.email === email)
findUserByEmail(us, email) == FindIndex({i \in 1 .. Len(us) : us[i].email = email})

RegistrationError == Response(500, "An error occurred during registration")

\* request.json(), the input check and findUserByEmail; bcrypt.hash is started
RegisterBegin(p, name, email, password) ==
    /\ Ready(p)
    /\ req' = [req EXCEPT ![p] = [NoRequest EXCEPT !.handler = "register",
                                                   !.email = email,
                                                   !.password = password]]
    /\ IF name = "" \/ FalsyEmail(email) \/ FalsyPassword(password)
       THEN /\ Respond(p, FieldsRequired)
            /\ UNCHANGED newUser
       ELSE IF findUserByEmail(users, email) # 0
       THEN /\ Respond(p, UserExists)
            /\ UNCHANGED newUser
       ELSE /\ nextUuid <= MaxRegistrations
            /\ newUser' = [newUser EXCEPT ![p] =
                             [NoUser EXCEPT !.name = name, !.email = email,
                                            !.password = BcryptHash(password)]]
            /\ Goto(p, "register_hash")
            /\ UNCHANGED <<tokens, usersRead>>
    /\ UNCHANGED <<disk, todos, todoTask, todoCalls, unsaved, nodeEnv, codec, nextUuid, forgotPage, resetPage, cleanupFailed, bg, serverless,
                   now, users, resetTokens, nextToken, cleanerPc, cleanerTokens,
                   sendCalls, resets, dones, pre>>

\* bcrypt.hash resolves: newUser is built with its uuidv4() id and
\* readDataFromFile is called
RegisterHashed(p) ==
    /\ pc[p] = "register_hash"
    /\ newUser' = [newUser EXCEPT ![p].id = Uuid(nextUuid)]
    /\ nextUuid' = nextUuid + 1
    /\ Goto(p, "register_read")
    /\ UNCHANGED <<disk, todos, todoTask, todoCalls, unsaved, nodeEnv, codec, forgotPage, resetPage, cleanupFailed, bg, serverless, now, users,
                   resetTokens, nextToken, req, tokens, usersRead, cleanerPc, cleanerTokens,
                   sendCalls, resets, dones, pre>>

\* readDataFromFile("users.json") resolves with the content of the file
RegisterRead(p) ==
    /\ pc[p] = "register_read"
    /\ usersRead' = [usersRead EXCEPT ![p] = users]
    /\ Goto(p, "register_save")
    /\ UNCHANGED <<disk, todos, todoTask, todoCalls, unsaved, nodeEnv, codec, nextUuid, newUser, forgotPage, resetPage, cleanupFailed, bg, serverless, now, users,
                   resetTokens, nextToken, req, tokens, cleanerPc, cleanerTokens,
                   sendCalls, resets, dones, pre>>

\* users.push(newUser) on the array that was read; the write of users.json
\* lands
RegisterSave(p) ==
    /\ pc[p] = "register_land"
    /\ UsersFileWrite(Append(usersRead[p], newUser[p]))
    /\ newUser' = [newUser EXCEPT ![p] = NoUser]
    /\ Respond(p, UserCreated)
    /\ UNCHANGED <<faults, todos, todoTask, todoCalls, unsaved, nodeEnv, codec, nextUuid, forgotPage, resetPage, cleanupFailed, bg, serverless,
                   now, resetTokens, nextToken, req, cleanerPc, cleanerTokens,
                   sendCalls, resets, dones, pre>>

(***************************************************************************)
(* Specifications.                                                         *)
(***************************************************************************)
\* the accounts of the data directory: the repository ships no users.json, so
\* the users of the file store are those that registered, here before the
\* first reset link is requested and one after another
SeedEmails == <<EmailA, EmailBStored>>
SeedName == "New User"
SeedPassword == "password123"

\* no reset token has been generated yet
Fresh == nextToken = 1

\* the memory store has its user from the start; the accounts of the data
\* directory have all registered
Seeded ==
    \/ serverless
    \/ /\ nextUuid > Len(SeedEmails)
       /\ \A p \in Procs : req[p].handler # "register"

\* the registration request of the next account
SeedBegin(p) ==
    /\ ~serverless
    /\ nextUuid <= Len(SeedEmails)
    /\ RegisterBegin(p, SeedName, SeedEmails[nextUuid], SeedPassword)

\* a later step of the registration handler
RegisterContinue(p) ==
    \/ RegisterHashed(p)
    \/ RegisterRead(p)
    \/ RegisterSave(p)

\* the first step of a handler; observe tells whether the history variable
\* pre records the state the request met
Begin(p, emails, jwtTokens, passwords, observe) ==
    \/ \E email \in emails :
          /\ ForgotBegin(p, email)
          /\ pre' = IF observe THEN [pre EXCEPT ![p] = Snapshot(NoJWT)] ELSE pre
    \/ \E token \in jwtTokens, password \in passwords :
          /\ ResetBegin(p, token, password)
          /\ pre' = IF observe THEN [pre EXCEPT ![p] = Snapshot(token)] ELSE pre

\* a later step of the forgot-password handler
ContinueForgot(p) ==
    \/ StoreLoad(p)
    \/ TokensFileOpen(p)
    \/ StoreSave(p)
    \/ \E delivered \in BOOLEAN : SendEmail(p, delivered)

\* a later step of a handler
Continue(p) ==
    \/ ContinueForgot(p)
    \/ ValidateLoad(p)
    \/ ValidateSave(p)
    \/ UsersRead(p)
    \/ UsersFileOpen(p)
    \/ UsersSave(p)
    \/ MarkLoad(p)
    \/ MarkSave(p)
    \/ RegisterContinue(p)

\* the response has gone out and the handler's frame is dropped
Return(p) ==
    /\ pc[p] = "done"
    /\ pc' = [pc EXCEPT ![p] = "idle"]
    /\ req' = [req EXCEPT ![p] = NoRequest]
    /\ res' = [res EXCEPT ![p] = NoResponse]
    /\ pre' = [pre EXCEPT ![p] = NoSnapshot]
    /\ UNCHANGED <<disk, elsewhere, bg, serverless, now, users, resetTokens, nextToken, tokens, usersRead,
                   cleanerPc, cleanerTokens, sendCalls, resets, dones>>

\* no response is waiting to go out
Returned == \A p \in Procs : pc[p] # "done"

Next ==
    \/ Returned /\ Tick
    \/ \E p \in Procs : Returned /\ Begin(p, EmailInputs, TokenInputs, PasswordInputs, TRUE)
    \/ \E p \in Procs : Returned /\ SeedBegin(p)
    \/ \E p \in Procs : Returned /\ Continue(p)
    \/ Returned /\ CleanupLoad
    \/ Returned /\ CleanupFileOpen
    \/ Returned /\ CleanupSave
    \/ \E p \in Procs : Return(p)

\* handlers and the scheduler interleave at every await
Spec == Init /\ [][Next]_vars

\* no handler and no cleanup is in flight
Quiet == cleanerPc = "idle" /\ \A p \in Procs : Ready(p)

NextSeq ==
    \/ Returned /\ Tick
    \/ \E p \in Procs : Quiet /\ Begin(p, EmailInputs, TokenInputs, PasswordInputs, TRUE)
    \/ \E p \in Procs : Quiet /\ Fresh /\ SeedBegin(p)
    \/ \E p \in Procs : Returned /\ Continue(p)
    \/ Quiet /\ CleanupLoad
    \/ Returned /\ CleanupFileOpen
    \/ Returned /\ CleanupSave
    \/ \E p \in Procs : Return(p)

\* Spec with every handler and every cleanup run to completion before the
\* next one starts
SpecSeq == Init /\ [][NextSeq]_vars

(***************************************************************************)
(* Failing collaborators.                                                  *)
(***************************************************************************)
\* the response of the outer catch block of either handler
ServerError == Response(500, "An error occurred. Please try again.")

\* request.json() rejects: the body is not JSON
BodyFault(p, handler) ==
    /\ Ready(p)
    /\ Fault
    /\ req' = [req EXCEPT ![p] = [NoRequest EXCEPT !.handler = handler]]
    /\ pre' = [pre EXCEPT ![p] = Snapshot(NoJWT)]
    /\ Respond(p, ServerError)
    /\ UNCHANGED <<fileSize, elsewhere, bg, serverless, now, users, resetTokens, nextToken, cleanerPc,
                   cleanerTokens, sendCalls, resets, dones>>

\* bcrypt.hash rejects: nothing was assigned yet
HashFault(p) ==
    /\ pc[p] = "users_save"
    /\ Fault
    /\ Respond(p, ServerError)
    /\ UNCHANGED <<fileSize, elsewhere, bg, serverless, now, users, resetTokens, nextToken, req,
                   cleanerPc, cleanerTokens, sendCalls, resets, dones, pre>>

\* the write of users.json fails and writeDataToFile returns false:
\* fs.writeFile rejects when it opens the file, which keeps its content, or
\* after it has opened it, which leaves it as the open or a later write made
\* it
UsersSaveFault(p) ==
    /\ pc[p] \in {"users_save", "users_land"}
    /\ ~serverless
    /\ Fault
    /\ Respond(p, UpdateFailed)
    /\ unsaved' = unsaved \cup {req[p].resetToken}
    /\ UNCHANGED <<fileSize, nodeEnv, codec, nextUuid, newUser, forgotPage, resetPage, cleanupFailed,
                   todos, todoTask, todoCalls, bg, serverless, now, users, resetTokens,
                   nextToken, req, cleanerPc, cleanerTokens, sendCalls, resets, dones,
                   pre>>

\* the write of resetTokens.json by storeResetToken fails, at the open or
\* after it: writeDataToFile returns false, saveResetTokens resolves and the
\* handler goes on to send the email
StoreSaveFault(p) ==
    /\ pc[p] \in {"store_save", "store_land"}
    /\ ~serverless
    /\ Fault
    /\ AwaitSend(p)
    /\ UNCHANGED <<fileSize, elsewhere, bg, serverless, now, users, resetTokens, nextToken, req,
                   cleanerPc, cleanerTokens, resets, dones, pre>>

\* the write of resetTokens.json by validateResetToken fails, at the open or
\* after it: saveResetTokens resolves and the find goes on
ValidateSaveFault(p) ==
    /\ pc[p] \in {"validate_save", "validate_land"}
    /\ ~serverless
    /\ Fault
    /\ Validated(p, TokenFound(tokens[p], req[p].email, req[p].resetToken))
    /\ UNCHANGED <<fileSize, elsewhere, bg, serverless, now, users, resetTokens, nextToken, req,
                   cleanerPc, cleanerTokens, sendCalls, resets, dones, pre>>

\* the write of resetTokens.json by markTokenAsUsed fails, at the open or
\* after it: saveResetTokens resolves and the handler answers 200
MarkSaveFault(p) ==
    /\ pc[p] \in {"mark_save", "mark_land"}
    /\ ~serverless
    /\ Fault
    /\ Succeed(p)
    /\ UNCHANGED <<fileSize, elsewhere, bg, serverless, now, users, resetTokens, nextToken, req,
                   cleanerPc, cleanerTokens, sendCalls, resets, pre>>

\* the write of users.json by the registration handler fails, at the open or
\* after it
RegisterSaveFault(p) ==
    /\ pc[p] \in {"register_save", "register_land"}
    /\ ~serverless
    /\ Fault
    /\ newUser' = [newUser EXCEPT ![p] = NoUser]
    /\ Respond(p, CreateFailed)
    /\ UNCHANGED <<fileSize, todos, todoTask, todoCalls, unsaved, nodeEnv, codec, nextUuid, forgotPage,
                   resetPage, cleanupFailed, bg, serverless, now, users, resetTokens,
                   nextToken, req, cleanerPc, cleanerTokens, sendCalls, resets, dones, pre>>

\* the users read of the forgot-password handler fails: readDataFromFile
\* returns [] and no user is found
ForgotReadFault(p, email) ==
    /\ Ready(p)
    /\ ~serverless
    /\ Fault
    /\ ~FalsyEmail(email)
    /\ Includes(email, "@")
    /\ UserIndex(<< >>, email) = 0
    /\ req' = [req EXCEPT ![p] = [NoRequest EXCEPT !.handler = "forgot", !.email = email]]
    /\ pre' = [pre EXCEPT ![p] = Snapshot(NoJWT)]
    /\ Respond(p, ResetSentNoUser)
    /\ UNCHANGED <<fileSize, elsewhere, bg, serverless, now, users, resetTokens, nextToken,
                   cleanerPc, cleanerTokens, sendCalls, resets, dones>>

\* loadResetTokens of storeResetToken when the read of resetTokens.json fails:
\* readDataFromFile returns [], the new record is pushed on it
StoreReadFault(p) ==
    /\ pc[p] = "store_load"
    /\ ~serverless
    /\ Fault
    /\ tokens' = [tokens EXCEPT ![p] =
                     StoredTokens(EmptyTokens, req[p].email, req[p].resetToken, now)]
    /\ Goto(p, "store_save")
    /\ UNCHANGED <<fileSize, elsewhere, bg, serverless, now, users, resetTokens, nextToken, req,
                   usersRead, cleanerPc, cleanerTokens, sendCalls, resets, dones, pre>>

\* loadResetTokens of validateResetToken when the read fails: nothing to
\* filter, nothing found
ValidateReadFault(p) ==
    /\ pc[p] = "validate_load"
    /\ ~serverless
    /\ Fault
    /\ Validated(p, TokenFound(ValidTokens(EmptyTokens, now), req[p].email,
                               req[p].resetToken))
    /\ UNCHANGED <<fileSize, elsewhere, bg, serverless, now, users, resetTokens, nextToken, req,
                   cleanerPc, cleanerTokens, sendCalls, resets, dones, pre>>

\* loadResetTokens of markTokenAsUsed when the read fails: findIndex gives -1,
\* nothing is written and the handler answers 200
MarkReadFault(p) ==
    /\ pc[p] = "mark_load"
    /\ ~serverless
    /\ Fault
    /\ TokenIndex(EmptyTokens, req[p].email, req[p].resetToken) = 0
    /\ Succeed(p)
    /\ UNCHANGED <<fileSize, elsewhere, bg, serverless, now, users, resetTokens, nextToken, req,
                   cleanerPc, cleanerTokens, sendCalls, resets, pre>>

\* the read of users.json by the registration handler fails: newUser is
\* pushed on []
RegisterReadFault(p) ==
    /\ pc[p] = "register_read"
    /\ ~serverless
    /\ Fault
    /\ usersRead' = [usersRead EXCEPT ![p] = << >>]
    /\ Goto(p, "register_save")
    /\ UNCHANGED <<fileSize, todos, todoTask, todoCalls, unsaved, nodeEnv, codec, nextUuid, newUser, forgotPage, resetPage,
                   cleanupFailed, bg, serverless, now, users, resetTokens, nextToken, req,
                   tokens, cleanerPc, cleanerTokens, sendCalls, resets, dones, pre>>

\* request.json() of the registration handler rejects: the outer catch
RegisterBodyFault(p) ==
    /\ Ready(p)
    /\ ~serverless
    /\ Fault
    /\ req' = [req EXCEPT ![p] = [NoRequest EXCEPT !.handler = "register"]]
    /\ Respond(p, RegistrationError)
    /\ UNCHANGED <<fileSize, elsewhere, bg, serverless, now, users, resetTokens, nextToken, cleanerPc,
                   cleanerTokens, sendCalls, resets, dones, pre>>

\* bcrypt.hash of the registration handler rejects: the outer catch
RegisterHashFault(p) ==
    /\ pc[p] = "register_hash"
    /\ ~serverless
    /\ Fault
    /\ newUser' = [newUser EXCEPT ![p] = NoUser]
    /\ Respond(p, RegistrationError)
    /\ UNCHANGED <<fileSize, todos, todoTask, todoCalls, unsaved, nodeEnv, codec, nextUuid, forgotPage,
                   resetPage, cleanupFailed, bg, serverless, now, users, resetTokens,
                   nextToken, req, cleanerPc, cleanerTokens, sendCalls, resets, dones, pre>>

\* loadResetTokens of cleanupExpiredTokens when the read fails: [] holds
\* nothing to remove and nothing is written
CleanupReadFault ==
    /\ cleanerPc = "idle"
    /\ ~serverless
    /\ Fault
    /\ Len(ValidTokens(EmptyTokens, now)) = Len(EmptyTokens)
    /\ UNCHANGED <<fileSize, elsewhere, bg, serverless, now, users, resetTokens, nextToken, pc,
                   req, tokens, usersRead, res, cleanerPc, cleanerTokens, sendCalls, resets,
                   dones, pre>>

\* the write of resetTokens.json by cleanupExpiredTokens fails, at the open or
\* after it: writeDataToFile returns false, the run logs and resolves
CleanupSaveFault ==
    /\ cleanerPc \in {"cleanup_save", "cleanup_land"}
    /\ ~serverless
    /\ Fault
    /\ cleanerPc' = "idle"
    /\ cleanerTokens' = EmptyTokens
    /\ cleanupFailed' = TRUE
    /\ UNCHANGED <<fileSize, todos, todoTask, todoCalls, unsaved, nodeEnv, codec, nextUuid, newUser,
                   forgotPage, resetPage, bg, serverless, now, users, resetTokens, nextToken,
                   pc, req, tokens, usersRead, res, sendCalls, resets, dones, pre>>

NextFault ==
    \/ NextSeq
    \/ \E p \in Procs, handler \in {"forgot", "reset"} : Quiet /\ BodyFault(p, handler)
    \/ \E p \in Procs, email \in EmailInputs : Quiet /\ ForgotReadFault(p, email)
    \/ \E p \in Procs : Returned /\ StoreReadFault(p)
    \/ \E p \in Procs : Returned /\ StoreSaveFault(p)
    \/ \E p \in Procs : Returned /\ ValidateReadFault(p)
    \/ \E p \in Procs : Returned /\ ValidateSaveFault(p)
    \/ \E p \in Procs : Returned /\ UsersReadFault(p)
    \/ \E p \in Procs : Returned /\ HashFault(p)
    \/ \E p \in Procs : Returned /\ UsersSaveFault(p)
    \/ \E p \in Procs : Returned /\ MarkReadFault(p)
    \/ \E p \in Procs : Returned /\ MarkSaveFault(p)
    \/ \E p \in Procs : Quiet /\ Fresh /\ RegisterBodyFault(p)
    \/ \E p \in Procs : Returned /\ RegisterHashFault(p)
    \/ \E p \in Procs : Returned /\ RegisterReadFault(p)
    \/ \E p \in Procs : Returned /\ RegisterSaveFault(p)
    \/ Quiet /\ CleanupReadFault
    \/ Returned /\ CleanupSaveFault

\* SpecSeq with collaborators that may fail: request.json(), bcrypt.hash and
\* the reads and writes of the data directory
SpecFault == Init /\ [][NextFault]_vars

\* the requests that get past their first step: emails of registered users,
\* mailed envelopes, a password that is long enough
RaceEmails == {EmailA, EmailB}
RaceTokens == {c.resetUrl.token : c \in sendCalls}
RacePasswords == {"123456"}

NextRace ==
    \/ Quiet /\ ~Fresh /\ Tick
    \/ \E p \in Procs :
          Returned /\ Seeded /\ Begin(p, RaceEmails, RaceTokens, RacePasswords, FALSE)
    \/ \E p \in Procs : Quiet /\ Fresh /\ SeedBegin(p)
    \/ \E p \in Procs : Returned /\ Continue(p)
    \/ Returned /\ CleanupLoad
    \/ Returned /\ CleanupFileOpen
    \/ Returned /\ CleanupSave
    \/ \E p \in Procs : Return(p)

\* Spec with the requests that are answered in their first step left out,
\* the accounts registered before the first of them and the clock moving
\* between the bursts of requests, from the first reset link on
SpecRace == Init /\ [][NextRace]_vars

\* number of reset links requested from the route.ts handlers (bound)
RouteLinks == 1

\* the requests of the route.ts handler, each with the state it met recorded
BeginRoute(p) ==
    \/ \E email \in RaceEmails :
          /\ nextToken <= RouteLinks
          /\ RouteForgotBegin(p, email)
          /\ pre' = [pre EXCEPT ![p] = Snapshot(NoJWT)]
    \/ \E token \in TokenInputs, password \in PasswordInputs :
          /\ RouteBegin(p, token, password)
          /\ pre' = [pre EXCEPT ![p] = Snapshot(token)]

InitRoute == Init /\ ~serverless

NextRoute ==
    \/ Returned /\ Tick
    \/ \E p \in Procs : Quiet /\ BeginRoute(p)
    \/ \E p \in Procs : Quiet /\ Fresh /\ SeedBegin(p)
    \/ \E p \in Procs : Returned /\ (RegisterContinue(p) \/ UsersFileOpen(p))
    \/ \E p \in Procs, delivered \in BOOLEAN : Returned /\ SendEmail(p, delivered)
    \/ \E p \in Procs : Returned /\ RouteSave(p)
    \/ \E task \in BagToSet(bg) : Returned /\ BgStoreLoad(task)
    \/ \E task \in BagToSet(bg) : Returned /\ BgValidateLoad(task)
    \/ \E task \in BagToSet(bg) : Returned /\ BgMarkLoad(task)
    \/ \E task \in BagToSet(bg) : Returned /\ BgFileOpen(task)
    \/ \E task \in BagToSet(bg) : Returned /\ BgSave(task)
    \/ Quiet /\ CleanupLoad
    \/ Returned /\ CleanupFileOpen
    \/ Returned /\ CleanupSave
    \/ \E p \in Procs : Return(p)

\* the data directory served by the route.ts handler: requests one after
\* another, the promises the handler drops running on behind them
SpecRoute == InitRoute /\ [][NextRoute]_vars

TypeOK ==
    /\ now \in 0 .. MaxClock
    /\ nextToken \in 1 .. MaxTokens + 1
    /\ \A p \in Procs : res[p].status \in {0, 200, 400, 404, 500}

(***************************************************************************)
(* Properties.                                                             *)
(***************************************************************************)
\* handler has answered process p's request and the response is going out
Done(p, handler) == pc[p] = "done" /\ req[p].handler = handler

\* the envelope is one that was handed to sendPasswordResetEmail
Mailed(jwtToken, calls) == \E c \in calls : c.resetUrl.token = jwtToken

InvalidToken == Response(400, "Invalid or expired reset token")

\* the ledger the request met holds an unused record of the envelope's pair
\* that has not expired at time t
LedgerValid(p, t) ==
    TokenFound(ValidTokens(pre[p].resetTokens, t),
               pre[p].jwtToken.email, pre[p].jwtToken.resetToken)

\* a reset request with an envelope and an acceptable password was answered
ResetAnswered(p) ==
    /\ Done(p, "reset")
    /\ pre[p].jwtToken.kind = "jwt"
    /\ ~ShortPassword(req[p].password)

\* C1: with requests run one after another, the first reset with a mailed,
\* unexpired, unused envelope returns 200, and every reset that comes after a
\* success with the same secret returns 400 "Invalid or expired reset token"
\* and leaves users.json as it was.
SingleUseSequential ==
    \A p \in Procs :
        (ResetAnswered(p) /\ Mailed(pre[p].jwtToken, pre[p].sendCalls)) =>
            /\ ( /\ verifyResetJWT(pre[p].jwtToken, pre[p].now) # NoDecoded
                 /\ pre[p].dones[pre[p].jwtToken.resetToken] = 0
                 /\ LedgerValid(p, now) )
               => res[p] = ResetDone
            /\ pre[p].dones[pre[p].jwtToken.resetToken] >= 1
               => (res[p] = InvalidToken /\ users = pre[p].users)

SecondUseRejected ==
    \E p \in Procs :
        /\ ResetAnswered(p)
        /\ Mailed(pre[p].jwtToken, pre[p].sendCalls)
        /\ pre[p].dones[pre[p].jwtToken.resetToken] = 1
        /\ verifyResetJWT(pre[p].jwtToken, pre[p].now) # NoDecoded
        /\ res[p] = InvalidToken

\* C3: a forgot-password request for an email with an "@" and no user gets the
\* response a delivered reset gets, writes no ledger record and does not call
\* sendPasswordResetEmail.
EnumerationResistance ==
    \A p \in Procs :
        ( /\ Done(p, "forgot")
          /\ ~FalsyEmail(req[p].email)
          /\ Includes(req[p].email, "@")
          /\ UserIndex(users, req[p].email) = 0 )
        => /\ res[p] = ResetSent
           /\ resetTokens = pre[p].resetTokens
           /\ \A i \in 1 .. Len(resetTokens) : resetTokens[i].email # req[p].email
           /\ sendCalls = pre[p].sendCalls

UnknownEmailAnswered ==
    \E p \in Procs :
        /\ Done(p, "forgot")
        /\ req[p].email = EmailNone
        /\ res[p].status = 200
        /\ \E c \in sendCalls : TRUE

\* the envelope's own expiry lies ahead at time t
EnvelopeLive(jwtToken, t) == ClockTimestamp(t) < jwtToken.exp

\* the ledger holds a record of the pair whose expiresAt lies ahead at time t
RecordLive(ledger, jwtToken, t) ==
    \E i \in 1 .. Len(ledger) :
        /\ ledger[i].email = jwtToken.email
        /\ ledger[i].token = jwtToken.resetToken
        /\ ledger[i].expiresAt > t

\* C4: a reset succeeds only if, when it is submitted, the envelope's expiry
\* and the ledger record's expiresAt both lie ahead; when either has passed
\* the answer is 400 "Invalid or expired reset token" and no password changes.
DoubleExpiry ==
    \A p \in Procs :
        ResetAnswered(p) =>
            LET bothLive ==
                   /\ EnvelopeLive(pre[p].jwtToken, pre[p].now)
                   /\ RecordLive(pre[p].resetTokens, pre[p].jwtToken, pre[p].now)
            IN /\ res[p] = ResetDone => bothLive
               /\ ~bothLive => (res[p] = InvalidToken /\ users = pre[p].users)

\* the ledger record has expired, the envelope (signed again later) has not
LedgerExpiredEnvelopeLive ==
    \E p \in Procs :
        /\ ResetAnswered(p)
        /\ verifyResetJWT(pre[p].jwtToken, pre[p].now) # NoDecoded
        /\ ~RecordLive(pre[p].resetTokens, pre[p].jwtToken, pre[p].now)
        /\ RecordLive(pre[p].resetTokens, pre[p].jwtToken, 0)
        /\ res[p] = InvalidToken

\* the calls that stored a later secret for the envelope's email
LaterStores(p) ==
    {c \in pre[p].sendCalls :
        /\ c.email = pre[p].jwtToken.email
        /\ c.resetToken > pre[p].jwtToken.resetToken}

\* C5: once a second forgot-password request for the same email has stored
\* its secret, the first envelope gets 400 "Invalid or expired reset token";
\* the newest envelope of the email, unexpired and unused, is accepted.
Supersession ==
    \A p \in Procs :
        (ResetAnswered(p) /\ Mailed(pre[p].jwtToken, pre[p].sendCalls)) =>
            /\ LaterStores(p) # {}
               => (res[p] = InvalidToken /\ users = pre[p].users)
            /\ ( /\ LaterStores(p) = {}
                 /\ pre[p].dones[pre[p].jwtToken.resetToken] = 0
                 /\ verifyResetJWT(pre[p].jwtToken, now) # NoDecoded )
               => res[p] = ResetDone

SupersededRejected ==
    \E p \in Procs :
        /\ ResetAnswered(p)
        /\ Mailed(pre[p].jwtToken, pre[p].sendCalls)
        /\ verifyResetJWT(pre[p].jwtToken, pre[p].now) # NoDecoded
        /\ pre[p].dones[pre[p].jwtToken.resetToken] = 0
        /\ LaterStores(p) # {}
        /\ res[p] = InvalidToken

\* C10: with an envelope that would be accepted, a missing password and every
\* password of at most 5 characters get 400 "Password must be at least 6
\* characters long" with users.json and the ledger untouched, and every
\* password of 6 or more characters is accepted.
PasswordBoundary ==
    \A p \in Procs :
        ( /\ Done(p, "reset")
          /\ pre[p].jwtToken.kind = "jwt"
          /\ verifyResetJWT(pre[p].jwtToken, pre[p].now) # NoDecoded
          /\ LedgerValid(p, now) )
        => IF req[p].password = NoPassword \/ Len(req[p].password) <= 5
           THEN /\ res[p] = PasswordTooShort
                /\ users = pre[p].users
                /\ resetTokens = pre[p].resetTokens
           ELSE res[p] = ResetDone

FiveCharactersRejected ==
    \E p \in Procs :
        /\ Done(p, "reset")
        /\ pre[p].jwtToken.kind = "jwt"
        /\ verifyResetJWT(pre[p].jwtToken, pre[p].now) # NoDecoded
        /\ LedgerValid(p, now)
        /\ Len(req[p].password) = 5
        /\ res[p] = PasswordTooShort

\* C2: whatever the interleaving of reset requests that carry the same valid
\* envelope, at most one of them returns 200 and the password hash is written
\* at most once for that secret.
SingleUseConcurrent ==
    \A t \in 1 .. MaxTokens : dones[t] <= 1 /\ resets[t] <= 1

\* C8: when forgot-password requests for different emails have completed
\* their storeResetToken (and nothing has expired, been consumed or been
\* superseded), the ledger holds the record of each of them.
NoLostStore ==
    (Quiet /\ now = 0 /\ \A t \in 1 .. MaxTokens : resets[t] = 0) =>
        \A c \in sendCalls :
            (\A d \in sendCalls : d # c => d.email # c.email) =>
                \E i \in 1 .. Len(resetTokens) :
                    /\ resetTokens[i].email = c.email
                    /\ resetTokens[i].token = c.resetToken

\* C9: once a reset has consumed a secret (the password is changed and
\* markTokenAsUsed has completed), the ledger never again holds an unused
\* record of that secret.
ConsumedStaysUsed ==
    \A i \in 1 .. Len(resetTokens) :
        dones[resetTokens[i].token] >= 1 => resetTokens[i].used

\* the envelope verifies when the request arrives
Verifies(p) == verifyResetJWT(pre[p].jwtToken, pre[p].now) # NoDecoded

\* C6: a reset whose envelope verifies but whose pair has no unused,
\* unexpired ledger record is answered 400 "Invalid or expired reset token"
\* and writes nothing to users.json.
LedgerIsGate ==
    \A p \in Procs :
        (ResetAnswered(p) /\ Verifies(p) /\ ~LedgerValid(p, pre[p].now)) =>
            (res[p] = InvalidToken /\ users = pre[p].users)

\* C7: a reset that fails on the envelope (signature, expiry, purpose,
\* malformed input) and one that fails on the ledger (no record, expired,
\* superseded or used record) get one and the same response, 400 "Invalid or
\* expired reset token".
InvalidTokenIndistinguishable ==
    \A p \in Procs :
        ( /\ Done(p, "reset")
          /\ ~FalsyToken(pre[p].jwtToken)
          /\ ~ShortPassword(req[p].password)
          /\ IF Verifies(p) THEN ~LedgerValid(p, pre[p].now) ELSE TRUE )
        => res[p] = InvalidToken

\* the send of process p's forgot-password request throws in this step
DeliveryFault(p) == SendEmail(p, FALSE)

\* the ledger holds exactly one record of the email: the given secret, unused,
\* expiring an hour after time t or later
HoldsFresh(ledger, email, resetToken, t) ==
    /\ \E i \in 1 .. Len(ledger) : ledger[i].email = email
    /\ \A i \in 1 .. Len(ledger) :
          ledger[i].email = email =>
              /\ ledger[i].token = resetToken
              /\ ~ledger[i].used
              /\ ledger[i].expiresAt >= t + TOKEN_EXPIRY_HOURS * HourMs

\* C11: when sendPasswordResetEmail throws for an existing email, the answer
\* is a 500 whose message is not the generic success message and the ledger
\* keeps the record that was just stored, unused and unexpired; a later
\* forgot-password request for the email leaves its own record in place of it.
DeliveryFaultKeepsRecord ==
    /\ [][\A p \in Procs :
            DeliveryFault(p) =>
                /\ res'[p].status = 500
                /\ res'[p].message # ResetSent.message
                /\ HoldsFresh(resetTokens', req[p].email, req[p].resetToken, pre[p].now)]_vars
    /\ [](\A p \in Procs :
            (Done(p, "forgot") /\ req[p].resetToken > 0) =>
                HoldsFresh(resetTokens, req[p].email, req[p].resetToken, pre[p].now))

\* a request answered 500 finds the record of an earlier request for the
\* email and leaves its own
UndeliveredSuperseded ==
    \E p \in Procs :
        /\ Done(p, "forgot")
        /\ res[p] = SendFailed
        /\ \E i \in 1 .. Len(pre[p].resetTokens) :
              /\ pre[p].resetTokens[i].email = req[p].email
              /\ ~pre[p].resetTokens[i].used
              /\ pre[p].resetTokens[i].expiresAt > pre[p].now
        /\ HoldsFresh(resetTokens, req[p].email, req[p].resetToken, pre[p].now)

\* the lookup of the user by email finds no record in this step
LookupFails(p) == pc[p] = "users_read" /\ pc'[p] = "done"

\* the ledger holds the unused record of the pair of process p's request
StillUnused(ledger, p) ==
    \E i \in 1 .. Len(ledger) :
        /\ ledger[i].email = req[p].email
        /\ ledger[i].token = req[p].resetToken
        /\ ~ledger[i].used

\* C12: when the envelope verifies and its pair validates in the ledger but no
\* user matches the email, the answer is 404 "User not found", users.json is
\* not written and the token is not marked used.
UserNotFoundKeepsToken ==
    [][\A p \in Procs :
          LookupFails(p) =>
              /\ res'[p] = Response(404, "User not found")
              /\ users' = users
              /\ users' = pre[p].users
              /\ resetTokens' = resetTokens
              /\ StillUnused(resetTokens', p)
              /\ resets' = resets /\ dones' = dones]_vars

UserNotFoundAnswered ==
    \E p \in Procs :
        /\ Done(p, "reset")
        /\ res[p].message = "User not found"
        /\ LedgerValid(p, pre[p].now)
        /\ \E i \in 1 .. Len(resetTokens) :
              /\ resetTokens[i].token = pre[p].jwtToken.resetToken
              /\ ~resetTokens[i].used

\* C13 as stated: when the user's record is absent at the update step of a
\* reset, the answer has a 500-class status.
ConsistencyFaultIs500 ==
    [][\A p \in Procs : LookupFails(p) => res'[p].status >= 500]_vars

\* C13 amended: when the user's record is absent at the update step of a
\* reset, the answer is the 404 of "User not found", not a 500-class status.
ConsistencyFaultIs404 ==
    [][\A p \in Procs :
          LookupFails(p) => (res'[p].status = 404 /\ res'[p].status < 500)]_vars

VanishedUserAnswered ==
    \E p \in Procs :
        /\ Done(p, "reset")
        /\ Verifies(p)
        /\ res[p].status = 404

\* C14: a reset request with a missing token, or with a password that is
\* missing or shorter than 6, gets its 400 validation error with the ledger
\* (lazy cleanup included) and users.json untouched, and the response is the
\* same whatever the envelope is.
ValidationBeforeVerification ==
    \A p \in Procs :
        Done(p, "reset") =>
            IF pre[p].jwtToken \in {NoJWT, EmptyString}
            THEN /\ res[p] = Response(400, "Reset token is required")
                 /\ resetTokens = pre[p].resetTokens
                 /\ users = pre[p].users
            ELSE (req[p].password = NoPassword \/ Len(req[p].password) < 6) =>
                 /\ res[p] = Response(400, "Password must be at least 6 characters long")
                 /\ resetTokens = pre[p].resetTokens
                 /\ users = pre[p].users

\* a validation error leaves in the ledger a record the lazy cleanup of
\* validateResetToken would have dropped
ValidationErrorSkipsCleanup ==
    \E p \in Procs :
        /\ Done(p, "reset")
        /\ res[p].status = 400
        /\ res[p] # InvalidToken
        /\ pre[p].jwtToken.kind = "jwt"
        /\ Len(ValidTokens(resetTokens, pre[p].now)) # Len(resetTokens)

\* the email holds the separator character
HasSeparator(email) == \E i \in 1 .. Len(email) : email[i] = "@"

\* C15: a forgot-password request whose email is missing, empty or without
\* "@" gets 400 "Please provide a valid email address"; no secret is issued,
\* the ledger is not written and no email is sent.
EmailValidation ==
    \A p \in Procs :
        ( /\ Done(p, "forgot")
          /\ (req[p].email = Missing \/ req[p].email = << >> \/ ~HasSeparator(req[p].email)) )
        => /\ res[p] = Response(400, "Please provide a valid email address")
           /\ req[p].resetToken = 0
           /\ req[p].jwtToken = NoJWT
           /\ resetTokens = pre[p].resetTokens
           /\ sendCalls = pre[p].sendCalls
           /\ users = pre[p].users

EmailWithoutSeparatorRejected ==
    \E p \in Procs :
        /\ Done(p, "forgot")
        /\ req[p].email = <<"a">>
        /\ res[p].status = 400
        /\ resetTokens # EmptyTokens

\* what a run of cleanupExpiredTokens that began in this step will persist
CleanupResult == IF serverless THEN resetTokens' ELSE cleanerTokens'

\* C16: cleanupExpiredTokens removes exactly the records with expiresAt <= now
\* whatever their used flag: every record with expiresAt > now, used ones
\* included, is still in the ledger afterwards.
CleanupRemovesExpiredOnly ==
    [][CleanupLoad =>
          CleanupResult = SelectSeq(resetTokens, LAMBDA r : r.expiresAt > now)]_vars

\* C17: a second run of cleanupExpiredTokens right after the first, at the
\* same clock value, finds nothing to remove: the ledger stays what the first
\* run persisted and nothing is written.
CleanupIdempotent ==
    [][/\ CleanupLoad =>
             /\ ValidTokens(CleanupResult, now) = CleanupResult
             /\ Len(ValidTokens(CleanupResult, now)) = Len(CleanupResult)
       /\ CleanupSave => resetTokens' = cleanerTokens]_vars

\* a run of cleanupExpiredTokens has dropped a record and its write is due
CleanupDroppedRecord ==
    /\ cleanerPc = "cleanup_save"
    /\ Len(cleanerTokens) < Len(resetTokens)
    /\ Len(resetTokens) >= 2

\* the records that are neither expired nor used at time t
Unexpired(ledger, t) == SelectSeq(ledger, LAMBDA r : r.expiresAt > t /\ ~r.used)

\* the ledger holds an unused record literally equal to the pair of process
\* p's request
Matches(ledger, p) ==
    \E i \in 1 .. Len(ledger) :
        /\ ledger[i].email = req[p].email
        /\ ledger[i].token = req[p].resetToken
        /\ ~ledger[i].used

\* validateResetToken returns true to process p's handler in this step
ReturnsTrue(p) == pc'[p] = "users_read"

\* C18: validateResetToken returns true exactly when the loaded ledger holds a
\* record literally equal to (email, token) that is unused and has
\* expiresAt > now; what it persists is the loaded ledger without its expired
\* or used records, and it writes nothing when there is none.
ValidateExact ==
    [][\A p \in Procs :
          /\ ValidateLoad(p) =>
                /\ Unexpired(resetTokens, now) = resetTokens =>
                      /\ resetTokens' = resetTokens
                      /\ pc'[p] # "validate_save"
                /\ Unexpired(resetTokens, now) # resetTokens =>
                      IF serverless
                      THEN resetTokens' = Unexpired(resetTokens, now)
                      ELSE /\ pc'[p] = "validate_save"
                           /\ tokens'[p] = Unexpired(resetTokens, now)
                /\ pc'[p] # "validate_save" =>
                      (ReturnsTrue(p) <=> Matches(Unexpired(resetTokens, now), p))
          /\ ValidateSave(p) =>
                /\ resetTokens' = tokens[p]
                /\ ReturnsTrue(p) <=> Matches(tokens[p], p)]_vars

\* the lazy cleanup drops the record of the request at the instant it expires
ExpiringRecordDropped ==
    \E p \in Procs :
        /\ pc[p] = "validate_save"
        /\ \E i \in 1 .. Len(resetTokens) :
              /\ resetTokens[i].email = req[p].email
              /\ resetTokens[i].token = req[p].resetToken
              /\ ~resetTokens[i].used
              /\ resetTokens[i].expiresAt = now
        /\ ~Matches(tokens[p], p)

\* result is ledger with the used flag of the records of the pair set and
\* nothing else changed
OnlyFlagSet(ledger, result, email, resetToken) ==
    /\ Len(result) = Len(ledger)
    /\ \A i \in 1 .. Len(ledger) :
          /\ result[i].email = ledger[i].email
          /\ result[i].token = ledger[i].token
          /\ result[i].expiresAt = ledger[i].expiresAt
          /\ result[i].used =
                (ledger[i].used \/
                    (ledger[i].email = email /\ ledger[i].token = resetToken))

\* the loaded ledger holds a record of the pair of process p's request
HasRecord(ledger, p) ==
    \E i \in 1 .. Len(ledger) :
        ledger[i].email = req[p].email /\ ledger[i].token = req[p].resetToken

\* C19: markTokenAsUsed sets the used flag of the record of (email, token),
\* whatever its used flag and expiry, and changes no other field and no other
\* record; with no such record the ledger is left as it is, nothing is
\* written and the handler goes on as after a mark.  The array it computed is
\* what its write leaves in the file, unless another write has landed in the
\* file since this one opened it.
MarkUsedFrame ==
    [][\A p \in Procs :
          /\ MarkLoad(p) =>
                IF HasRecord(resetTokens, p)
                THEN OnlyFlagSet(resetTokens,
                                 IF serverless THEN resetTokens' ELSE tokens'[p],
                                 req[p].email, req[p].resetToken)
                ELSE /\ resetTokens' = resetTokens
                     /\ pc'[p] = "done"
                     /\ res'[p] = ResetDone
          /\ MarkSave(p) =>
                (fileSize["resetTokens.json"] = 0 => resetTokens' = tokens[p])]_vars

\* the record was already used, by a reset that ran beside this one, when it
\* was marked, and the ledger holds another record next to it
UsedRecordMarked ==
    \E p \in Procs :
        /\ pc[p] = "mark_save"
        /\ \E i \in 1 .. Len(resetTokens) :
              /\ resetTokens[i].email = req[p].email
              /\ resetTokens[i].token = req[p].resetToken
              /\ resetTokens[i].used
              /\ tokens[p][i].used
        /\ Len(tokens[p]) = 2

\* the records of the other emails, in their order
OtherRecords(ledger, email) == SelectSeq(ledger, LAMBDA r : r.email # email)

\* C20: storeResetToken leaves exactly one record of the email, which is
\* {email, token, expiresAt = now + 1 hour, used = false}, whatever records of
\* the email there were before, and leaves the records of all other emails as
\* they were.
StoreExact ==
    [][\A p \in Procs :
          /\ StoreLoad(p) =>
                LET result == IF serverless THEN resetTokens' ELSE tokens'[p]
                IN /\ Cardinality({i \in 1 .. Len(result) :
                                      result[i].email = req[p].email}) = 1
                   /\ \E i \in 1 .. Len(result) :
                         result[i] = [email |-> req[p].email,
                                      token |-> req[p].resetToken,
                                      expiresAt |-> now + TOKEN_EXPIRY_HOURS * HourMs,
                                      used |-> FALSE]
                   /\ OtherRecords(result, req[p].email) =
                         OtherRecords(resetTokens, req[p].email)
          /\ StoreSave(p) =>
                resetTokens' = tokens[p]]_vars

\* a store has replaced a used record of its email
UsedRecordReplaced ==
    \E p \in Procs :
        /\ Done(p, "forgot")
        /\ req[p].resetToken > 0
        /\ \E i \in 1 .. Len(pre[p].resetTokens) :
              /\ pre[p].resetTokens[i].email = req[p].email
              /\ pre[p].resetTokens[i].used
        /\ \E i \in 1 .. Len(resetTokens) :
              /\ resetTokens[i].email = req[p].email
              /\ resetTokens[i].token = req[p].resetToken
              /\ ~resetTokens[i].used

\* C21: whatever the interleaving of storeResetToken, validateResetToken,
\* markTokenAsUsed and cleanupExpiredTokens from an empty ledger, the ledger
\* never holds two records of one email.
OneRecordPerEmail ==
    \A i, j \in 1 .. Len(resetTokens) :
        resetTokens[i].email = resetTokens[j].email => i = j

\* two secrets were stored for one email and the ledger holds a record of it
\* next to a record of another email
SecondStoreForEmail ==
    /\ \E c, d \in sendCalls : c.email = d.email /\ c.resetToken # d.resetToken
    /\ Len(resetTokens) >= 1
    /\ \E c \in sendCalls : \E i \in 1 .. Len(resetTokens) :
          resetTokens[i].email = c.email


(***************************************************************************)
(* The cleanup scheduler: RootLayout and cleanupUtils.                     *)
(***************************************************************************)
NoTimer == [armed |-> FALSE, minutes |-> 0]

\* startTokenCleanup: a run at once, then setInterval of one hour
startTokenCleanup == [armed |-> TRUE, minutes |-> 60]

\* startDevTokenCleanup: a run at once, then setInterval of five minutes
startDevTokenCleanup == [armed |-> TRUE, minutes |-> 5]

\* the module code of RootLayout: the only call of a scheduler, made when
\* NODE_ENV === 'development'
CleanupTimer(env) == IF env = "development" THEN startDevTokenCleanup ELSE NoTimer

\* the run at start or an interval tick: cleanupExpiredTokens is called
SchedulerRun ==
    /\ CleanupTimer(nodeEnv).armed
    /\ CleanupLoad

\* the first step of a forgot-password request
BeginForgot(p) ==
    \E email \in EmailInputs :
        /\ ForgotBegin(p, email)
        /\ pre' = [pre EXCEPT ![p] = Snapshot(NoJWT)]

InitSched == \E env \in NodeEnvs : Started(env)

NextSched ==
    \/ Returned /\ Tick
    \/ \E p \in Procs : Returned /\ BeginForgot(p)
    \/ \E p \in Procs : Returned /\ Fresh /\ SeedBegin(p)
    \/ \E p \in Procs : Returned /\ (RegisterContinue(p) \/ UsersFileOpen(p))
    \/ \E p \in Procs : Returned /\ ContinueForgot(p)
    \/ Returned /\ SchedulerRun
    \/ Returned /\ CleanupFileOpen
    \/ Returned /\ CleanupSave
    \/ \E p \in Procs : Return(p)

\* the process in either environment with forgot-password requests only,
\* interleaving with each other and with the scheduler's runs: no
\* validateResetToken is ever called
SpecSched == InitSched /\ [][NextSched]_vars

\* C22: in production as in development the scheduler was started with the
\* process, so a ledger record whose expiresAt has passed always has a run of
\* cleanupExpiredTokens ahead of it, without any validate call.
ExpiredRecordsAwaitCleanup ==
    (\E i \in 1 .. Len(resetTokens) : resetTokens[i].expiresAt <= now)
        => CleanupTimer(nodeEnv).armed


\* C23: a run of cleanupExpiredTokens whose write fails ends without an error
\* reaching any handler and leaves the ledger with every record the run kept;
\* the scheduler stays armed with the removable record still there for its
\* next run; and from
\* then on validateResetToken still returns false for every pair whose
\* record has expired when its filter runs.
FailedCleanupSwallowed ==
    [][/\ CleanupSaveFault =>
             /\ resetTokens' = resetTokens
             /\ \A i \in 1 .. Len(cleanerTokens) :
                    \E j \in 1 .. Len(resetTokens') : resetTokens'[j] = cleanerTokens[i]
             /\ pc' = pc
             /\ res' = res
             /\ cleanerPc' = "idle"
             /\ CleanupTimer(nodeEnv').armed
             /\ \E i \in 1 .. Len(resetTokens') :
                    resetTokens'[i].expiresAt <= now' \/ resetTokens'[i].used
       /\ \A p \in Procs :
             (/\ cleanupFailed
              /\ ValidateLoad(p)
              /\ ~\E i \in 1 .. Len(resetTokens) :
                     /\ resetTokens[i].email = req[p].email
                     /\ resetTokens[i].token = req[p].resetToken
                     /\ resetTokens[i].expiresAt > now)
                => /\ pc'[p] # "users_read"
                   /\ ~\E i \in 1 .. Len(tokens'[p]) :
                          /\ tokens'[p][i].email = req[p].email
                          /\ tokens'[p][i].token = req[p].resetToken
       /\ \A p \in Procs :
             (/\ cleanupFailed
              /\ ValidateSave(p)
              /\ ~\E i \in 1 .. Len(tokens[p]) :
                     /\ tokens[p][i].email = req[p].email
                     /\ tokens[p][i].token = req[p].resetToken)
                => pc'[p] # "users_read"]_vars

\* the write of resetTokens.json by process p's storeResetToken has failed:
\* the handler waits for the send and the ledger is without its record
StoreFailed(p) == pc[p] = "send" /\ ~HasRecord(resetTokens, p)

\* the handler of process p answers in this step a request in which a
\* collaborator has failed: request.json(), a read or a write of users.json,
\* a read or a write of resetTokens.json, bcrypt.hash or
\* sendPasswordResetEmail
CollaboratorFails(p) ==
    \/ \E handler \in {"forgot", "reset"} : BodyFault(p, handler)
    \/ \E email \in EmailInputs : ForgotReadFault(p, email)
    \/ UsersReadFault(p)
    \/ HashFault(p)
    \/ UsersSaveFault(p)
    \/ ValidateReadFault(p)
    \/ MarkReadFault(p)
    \/ MarkSaveFault(p)
    \/ SendEmail(p, FALSE)
    \/ StoreFailed(p) /\ SendEmail(p, TRUE)

\* C24: every forgot-password and reset-password invocation ends with one
\* response whose status is 200, 400, 404 or 500, and a failure of any
\* collaborator (body parsing, users.json read or write, resetTokens.json
\* read or write, hashing, email delivery) is answered with 500.
CollaboratorFailureIs500 ==
    [][\A p \in Procs :
          /\ (pc'[p] = "done" /\ req'[p].handler \in {"forgot", "reset"})
                => res'[p].status \in {200, 400, 404, 500}
          /\ CollaboratorFails(p) => (pc'[p] = "done" /\ res'[p].status = 500)]_vars


\* the index of the one record of us whose email is email up to letter case
MatchedRecord(us, email) ==
    CHOOSE k \in 1 .. Len(us) : ToLowerCase(us[k].email) = ToLowerCase(email)

\* C25: when a reset-password request is answered with 200, users.json is what
\* the request met except for the password hash of the one record matched by
\* the envelope's email (its id, name and email and every other record are
\* the same); when a reset-password request is answered otherwise, or a
\* forgot-password request is answered, users.json is what the request met.
CredentialStoreFrame ==
    \A p \in Procs :
        (pc[p] = "done" /\ req[p].handler \in {"forgot", "reset"}) =>
            IF req[p].handler = "reset" /\ res[p].status = 200
            THEN LET k == MatchedRecord(pre[p].users, pre[p].jwtToken.email)
                 IN /\ Len(users) = Len(pre[p].users)
                    /\ users[k].password = [bcrypt |-> req[p].password]
                    /\ users[k].id = pre[p].users[k].id
                    /\ users[k].name = pre[p].users[k].name
                    /\ users[k].email = pre[p].users[k].email
                    /\ \A j \in 1 .. Len(users) : j # k => users[j] = pre[p].users[j]
            ELSE users = pre[p].users

(***************************************************************************)
(* Registration requests on their own.                                     *)
(***************************************************************************)
\* registration works on data/users.json through fileUtils
InitRegister == Init /\ ~serverless

NextRegister ==
    \/ \E p \in Procs, name \in RegisterNames, email \in RegisterEmails,
          password \in RegisterPasswords :
          Returned /\ RegisterBegin(p, name, email, password)
    \/ \E p \in Procs : Returned /\ RegisterHashed(p)
    \/ \E p \in Procs : Returned /\ RegisterRead(p)
    \/ \E p \in Procs : Returned /\ UsersFileOpen(p)
    \/ \E p \in Procs : Returned /\ RegisterSave(p)
    \/ \E p \in Procs : Return(p)

\* registration requests that interleave at every await
SpecRegister == InitRegister /\ [][NextRegister]_vars

\* C26: whatever registration requests ran and however they interleaved, no
\* two records of users.json have emails that are equal up to letter case.
UniqueCredentialEmails ==
    \A i, j \in 1 .. Len(users) :
        i # j => ToLowerCase(users[i].email) # ToLowerCase(users[j].email)


(***************************************************************************)
(* The reset-password page.                                                *)
(***************************************************************************)
\* the state of the server, which the steps of a page alone leave as it is
server == <<serverless, now, users, resetTokens, nextToken, pc, req, tokens,
            usersRead, res, cleanerPc, cleanerTokens, sendCalls, resets, dones,
            pre, bg>>

\* the process that serves the requests of the page
PageProc == 1

\* the token parameters a reset-password URL can carry: none, an arbitrary
\* string, the envelopes that were mailed
PageParams == {NoJWT, MalformedToken} \cup {c.resetUrl.token : c \in sendCalls}

\* setTimeout calls of the page that can be pending at once (bound)
MaxTimers == 2

\* what the user types into the password and the confirmation field
PagePasswords == {<<"123456", "123456">>, <<"12345", "12345">>, <<"123456", "654321">>}

\* if (!tokenValid && !token): the page renders 'Invalid Reset Link' and the
\* link to /forgot-password instead of the form
InvalidLinkView(page) == ~page.tokenValid /\ page.token = EmptyString

\* the history fields of a page opened with param
OpenedWith(page, param) ==
    [page EXCEPT
        !.step = "shown",
        !.param = param,
        !.verified = verifyResetJWT(param, now) # NoDecoded,
        !.validAtOpen =
            IF verifyResetJWT(param, now) = NoDecoded THEN FALSE
            ELSE TokenFound(ValidTokens(resetTokens, now), param.email, param.resetToken)]

\* the page is loaded and its effect runs: searchParams.get('token'). The URL
\* is loaded as a new document, which drops the timers of the old one, or it
\* is reached inside the application, where they stay pending
ResetPageOpen(param) ==
    /\ resetPage.step \in {"closed", "shown"}
    /\ \E timers \in {0, resetPage.timers} :
          resetPage' =
             IF param = NoJWT \/ param = EmptyString
             THEN OpenedWith([ClosedResetPage EXCEPT
                                 !.timers = timers,
                                 !.error = "Invalid reset link. Please request a new password reset."],
                             param)
             ELSE OpenedWith([ClosedResetPage EXCEPT !.timers = timers, !.token = param,
                                                     !.tokenValid = TRUE],
                             param)
    /\ UNCHANGED <<disk, server, todos, todoTask, todoCalls, unsaved, nodeEnv, codec, nextUuid, newUser, forgotPage, cleanupFailed>>

\* the user fills in the two fields of the form
ResetPageType(password, confirmPassword) ==
    /\ resetPage.step = "shown"
    /\ ~InvalidLinkView(resetPage)
    /\ ~resetPage.loading
    /\ resetPage' = [resetPage EXCEPT !.password = password,
                                      !.confirmPassword = confirmPassword]
    /\ UNCHANGED <<disk, server, todos, todoTask, todoCalls, unsaved, nodeEnv, codec, nextUuid, newUser, forgotPage, cleanupFailed>>

\* a handleSubmit without the comparison of the two fields
ResetPageSubmitUnconfirmed ==
    /\ resetPage.step = "shown"
    /\ ~InvalidLinkView(resetPage)
    /\ ~resetPage.loading
    /\ resetPage.timers < MaxTimers
    /\ resetPage' =
          IF ShortPassword(resetPage.password)
          THEN [resetPage EXCEPT !.message = "",
                                 !.error = "Password must be at least 6 characters long"]
          ELSE [resetPage EXCEPT !.step = "fetching", !.loading = TRUE,
                                 !.message = "", !.error = ""]
    /\ UNCHANGED <<disk, server, todos, todoTask, todoCalls, unsaved, nodeEnv, codec, nextUuid, newUser, forgotPage, cleanupFailed>>

\* handleSubmit up to the call of fetch
ResetPageSubmit ==
    /\ resetPage.step = "shown"
    /\ ~InvalidLinkView(resetPage)
    /\ ~resetPage.loading
    /\ resetPage.timers < MaxTimers
    /\ resetPage' =
          IF ShortPassword(resetPage.password)
          THEN [resetPage EXCEPT !.message = "",
                                 !.error = "Password must be at least 6 characters long"]
          ELSE IF resetPage.password # resetPage.confirmPassword
          THEN [resetPage EXCEPT !.message = "", !.error = "Passwords do not match"]
          ELSE [resetPage EXCEPT !.step = "fetching", !.loading = TRUE,
                                 !.message = "", !.error = ""]
    /\ UNCHANGED <<disk, server, todos, todoTask, todoCalls, unsaved, nodeEnv, codec, nextUuid, newUser, forgotPage, cleanupFailed>>

\* the request of fetch('/api/auth/reset-password') reaches the handler of
\* app/api/auth/reset-password/route.ts
ResetPageSend ==
    /\ resetPage.step = "fetching"
    /\ RouteBegin(PageProc, resetPage.token, resetPage.password)
    /\ pre' = [pre EXCEPT ![PageProc] = Snapshot(resetPage.token)]

\* fetch rejects, the request never reaches the server: the catch block and
\* setLoading(false), which do nothing once the page is left
ResetPageFetchFault ==
    /\ resetPage.step = "fetching"
    /\ Ready(PageProc)
    /\ resetPage' =
          IF resetPage.away
          THEN [ClosedResetPage EXCEPT !.timers = resetPage.timers]
          ELSE [resetPage EXCEPT !.step = "shown", !.loading = FALSE,
                                 !.error = "An error occurred. Please try again."]
    /\ UNCHANGED <<disk, server, todos, todoTask, todoCalls, unsaved, nodeEnv, codec, nextUuid, newUser, forgotPage, cleanupFailed>>

\* the handler has answered: the response arrives and response.json() gives
\* its body, or the connection breaks and fetch or response.json() rejects.
\* setMessage and the setTimeout of router.push, or setError, or the catch
\* block; finally setLoading(false). Once the page is left the state setters
\* do nothing, and setTimeout sets its timer all the same
ResetPageResponse(arrived) ==
    /\ resetPage.step = "fetching"
    /\ pc[PageProc] = "done"
    /\ resetPage' =
          IF resetPage.away
          THEN [ClosedResetPage EXCEPT
                   !.timers = IF arrived /\ res[PageProc].status \in 200 .. 299
                              THEN resetPage.timers + 1 ELSE resetPage.timers]
          ELSE IF ~arrived
          THEN [resetPage EXCEPT !.step = "shown", !.loading = FALSE,
                                 !.error = "An error occurred. Please try again."]
          ELSE IF res[PageProc].status \in 200 .. 299
          THEN [resetPage EXCEPT !.step = "shown", !.loading = FALSE,
                                 !.message = res[PageProc].message,
                                 !.timers = @ + 1]
          ELSE [resetPage EXCEPT !.step = "shown", !.loading = FALSE,
                                 !.error = IF res[PageProc].message = ""
                                           THEN "Failed to reset password"
                                           ELSE res[PageProc].message]
    /\ pc' = [pc EXCEPT ![PageProc] = "idle"]
    /\ req' = [req EXCEPT ![PageProc] = NoRequest]
    /\ res' = [res EXCEPT ![PageProc] = NoResponse]
    /\ pre' = [pre EXCEPT ![PageProc] = NoSnapshot]
    /\ UNCHANGED <<disk, todos, todoTask, todoCalls, unsaved, nodeEnv, codec, nextUuid, newUser, forgotPage, cleanupFailed, bg, serverless,
                   now, users, resetTokens, nextToken, tokens, usersRead, cleanerPc,
                   cleanerTokens, sendCalls, resets, dones>>

\* a timer set after a success fires, whatever the page shows by then:
\* router.push("/login") leaves the page, or finds it left already; a fetch
\* that is out goes on
ResetPageRedirect ==
    /\ resetPage.timers > 0
    /\ resetPage' =
          IF resetPage.step = "fetching"
          THEN [resetPage EXCEPT !.away = TRUE, !.timers = @ - 1]
          ELSE [ClosedResetPage EXCEPT !.timers = resetPage.timers - 1]
    /\ UNCHANGED <<disk, server, todos, todoTask, todoCalls, unsaved, nodeEnv, codec, nextUuid, newUser, forgotPage, cleanupFailed>>

\* the clients other than the page
OtherProcs == Procs \ {PageProc}

\* the requests of the other clients to the route.ts handlers: a
\* forgot-password for an account
BeginOther(p) ==
    \E email \in RaceEmails : RouteForgotBegin(p, email) /\ UNCHANGED pre

\* no handler, no cleanup run and no dropped promise is under way
AtRest == Quiet /\ bg = EmptyBag

NextResetPage ==
    \/ Quiet /\ ~Fresh /\ Tick
    \/ \E param \in PageParams : AtRest /\ ResetPageOpen(param)
    \/ \E typed \in PagePasswords : AtRest /\ ResetPageType(typed[1], typed[2])
    \/ AtRest /\ ResetPageSubmit
    \/ Quiet /\ ResetPageSend
    \/ Returned /\ ResetPageFetchFault
    \/ \E arrived \in BOOLEAN : ResetPageResponse(arrived)
    \/ ResetPageRedirect
    \/ \E p \in OtherProcs : Quiet /\ Seeded /\ BeginOther(p)
    \/ \E p \in OtherProcs : Quiet /\ Fresh /\ SeedBegin(p)
    \/ \E p \in Procs : Returned /\ (RegisterContinue(p) \/ UsersFileOpen(p))
    \/ \E p \in Procs, delivered \in BOOLEAN : Returned /\ SendEmail(p, delivered)
    \/ \E p \in Procs : Returned /\ RouteSave(p)
    \/ \E task \in BagToSet(bg) : Returned /\ BgStoreLoad(task)
    \/ \E task \in BagToSet(bg) : Returned /\ BgValidateLoad(task)
    \/ \E task \in BagToSet(bg) : Returned /\ BgMarkLoad(task)
    \/ \E task \in BagToSet(bg) : Returned /\ BgFileOpen(task)
    \/ \E task \in BagToSet(bg) : Returned /\ BgSave(task)
    \/ Quiet /\ CleanupLoad
    \/ Returned /\ CleanupFileOpen
    \/ Returned /\ CleanupSave
    \/ \E p \in OtherProcs : Return(p)

\* one browser on the reset-password page and the data directory served by
\* the route.ts handler to it and to the other clients: the accounts register
\* first, every request is handled before the next, the promises the handler
\* drops run on behind them, and the clock moves between requests from the
\* first reset link on. The steps of the page that touch nothing on the
\* server (load, typing, submit up to fetch) commute with the server's steps
\* and are taken while the server is at rest; the fetch, its response and the
\* timer are not
SpecResetPage == InitRoute /\ [][NextResetPage]_vars


\* C27: a reset-password page opened with a token parameter that is missing
\* or is no valid reset envelope (an arbitrary string, a malformed or expired
\* JWT) shows the 'Invalid Reset Link' view, not the new-password form.
BadLinkShowsInvalidView ==
    (resetPage.step # "closed" /\ ~resetPage.verified) => InvalidLinkView(resetPage)

\* the ledger the page's request met holds an unused, unexpired record of the
\* pair in the envelope the page submitted
ValidAtSubmission ==
    /\ verifyResetJWT(pre[PageProc].jwtToken, pre[PageProc].now) # NoDecoded
    /\ \E i \in 1 .. Len(pre[PageProc].resetTokens) :
          /\ pre[PageProc].resetTokens[i].email = pre[PageProc].jwtToken.email
          /\ pre[PageProc].resetTokens[i].token = pre[PageProc].jwtToken.resetToken
          /\ pre[PageProc].resetTokens[i].expiresAt > pre[PageProc].now
          /\ ~pre[PageProc].resetTokens[i].used

\* C28: opening the reset-password page with a token changes neither the
\* ledger nor users.json nor any request, and shows the form for every
\* non-empty token without verifying it; the submission is answered by the
\* ledger and the clock it meets: a token that is not valid then is rejected
\* and the page shows the error, whatever held when the page was opened.
ValidityDecidedAtSubmission ==
    [][/\ \A param \in PageParams :
             ResetPageOpen(param) =>
                 /\ UNCHANGED <<resetTokens, users, pc, req, res, tokens, usersRead,
                                sendCalls, resets, dones>>
                 /\ (param # NoJWT /\ param # EmptyString)
                        => (resetPage'.tokenValid /\ ~InvalidLinkView(resetPage'))
       /\ \A arrived \in BOOLEAN :
             ResetPageResponse(arrived) =>
                /\ ~ValidAtSubmission =>
                      /\ res[PageProc].status # 200
                      /\ (arrived /\ ~resetPage.away) =>
                            /\ resetPage'.error = "Invalid or expired reset token"
                            /\ resetPage'.message = ""
                /\ (res[PageProc].status = 200 /\ arrived /\ ~resetPage.away) =>
                      resetPage'.message = "Password has been reset successfully"]_vars

(***************************************************************************)
(* Envelopes as strings: signed, mailed, altered and verified.             *)
(***************************************************************************)
\* number of envelopes signed (bound)
MaxIssued == 1

\* emails to sign for: one of letters, one with a quote, one with a
\* backslash, one with a character of two bytes, one with a line feed
CodecEmails ==
    {EmailA, <<"q", "\"", "@">>, <<"b", "\\", "@">>, <<"U+00E9", "@">>,
     <<"U+000A", "@">>}

\* values of generateResetToken, in hexadecimal
CodecTokens == {<<"0", "f">>, <<"f", "0">>}

\* createResetJWT(email, resetToken): the string that is mailed
CodecWrap(email, resetToken) ==
    /\ Cardinality(codec.issued) < MaxIssued
    /\ codec' = [codec EXCEPT
                    !.issued = @ \cup
                        {[email |-> email, resetToken |-> resetToken,
                          iat |-> ClockTimestamp(now),
                          text |-> jwtEncode(createResetJWT(email, resetToken, now))]}]
    /\ UNCHANGED <<disk, server, nodeEnv, nextUuid, newUser, forgotPage, resetPage,
                   cleanupFailed, todos, todoTask, todoCalls, unsaved>>

\* what can be made of a mailed envelope without the secret, or with the
\* secret for another purpose: signed with another key, signed as an
\* email-verification, the payload replaced by one that expires an hour later
\* under the signature of the old, the signature cut off, the last segment
\* cut off, the header replaced by one that announces no signature
Forged(issued) ==
    LET jwt == createResetJWT(issued.email, issued.resetToken, issued.iat * MsPerSecond)
        parts == Split(issued.text, ".")
    IN {jwtEncode([jwt EXCEPT !.key = "another-key"]),
        jwtEncode([jwt EXCEPT !.type = "email-verification"]),
        parts[1] \o <<".">>
            \o base64urlEncode(Bytes(JsonPayload(
                   [jwt EXCEPT !.exp = @ + TOKEN_EXPIRY_HOURS * HourSeconds])))
            \o <<".">> \o parts[3],
        parts[1] \o <<".">> \o parts[2] \o <<".">>,
        parts[1] \o <<".">> \o parts[2],
        base64urlEncode(Bytes(UnsignedHeader)) \o <<".">> \o parts[2] \o <<".">>}

\* the strings a client presents: mailed envelopes, what can be made of them,
\* 'invalid-token' and the empty string
Presented ==
    {issued.text : issued \in codec.issued}
        \cup UNION {Forged(issued) : issued \in codec.issued}
        \cup {<<"i", "n", "v", "a", "l", "i", "d", "-", "t", "o", "k", "e", "n">>, << >>}

\* verifyResetJWT(token) of a presented string
CodecUnwrap(text) ==
    LET token == jwtDecode(text)
    IN /\ token # Unread
       /\ codec' = [codec EXCEPT
                       !.unwrapped = [kind |-> "done", text |-> text, at |-> now,
                                      result |-> verifyResetJWT(token, now)]]
       /\ UNCHANGED <<disk, server, nodeEnv, nextUuid, newUser, forgotPage, resetPage,
                      cleanupFailed, todos, todoTask, todoCalls, unsaved>>

NextCodec ==
    \/ Tick
    \/ \E email \in CodecEmails, resetToken \in CodecTokens : CodecWrap(email, resetToken)
    \/ \E text \in Presented : CodecUnwrap(text)

\* envelopes are signed, the clock moves, and strings are presented for
\* verification
SpecCodec == InitRoute /\ [][NextCodec]_vars

\* C29: verifyResetJWT of the string createResetJWT returned for an email and
\* a reset token gives back exactly that email and that token as long as the
\* envelope has not expired, and null once it has; it gives null for every
\* other string: one signed with another key, one whose payload was altered
\* under the old signature, one without signature, one that is no JWT, and one
\* signed with the secret whose type is not 'password-reset'.
CodecRoundTrip ==
    codec.unwrapped.kind = "done" =>
        LET wrapped == {issued \in codec.issued : issued.text = codec.unwrapped.text}
        IN /\ \A issued \in wrapped :
                 codec.unwrapped.result =
                     IF ClockTimestamp(codec.unwrapped.at)
                            < issued.iat + TOKEN_EXPIRY_HOURS * HourSeconds
                     THEN [kind |-> "decoded", email |-> issued.email,
                           resetToken |-> issued.resetToken]
                     ELSE [kind |-> "null"]
           /\ wrapped = {} => codec.unwrapped.result = [kind |-> "null"]

\* the envelope of an email with a quote in it was mailed as a string of three
\* segments and verified to the pair that was signed, after another string
\* had been turned down
QuotedEmailUnwrapped ==
    /\ codec.unwrapped.kind = "done"
    /\ codec.unwrapped.result.kind = "decoded"
    /\ codec.unwrapped.result.email = <<"q", "\"", "@">>
    /\ codec.unwrapped.at > 0
    /\ \E issued \in codec.issued :
          /\ issued.text = codec.unwrapped.text
          /\ issued.email = codec.unwrapped.result.email
          /\ issued.resetToken = codec.unwrapped.result.resetToken
          /\ Len(Split(issued.text, ".")) = 3

(***************************************************************************)
(* The forgot-password page.                                               *)
(***************************************************************************)
\* what the user types into the email field
PageEmails == {<< >>, <<"a">>, EmailA, EmailAUpper, EmailNone}

\* the user edits the email field
ForgotPageType(email) ==
    /\ forgotPage.step = "idle"
    /\ ~forgotPage.loading
    /\ forgotPage' = [forgotPage EXCEPT !.email = email]
    /\ UNCHANGED <<disk, server, todos, todoTask, todoCalls, unsaved, nodeEnv, codec, nextUuid, newUser, resetPage, cleanupFailed>>

\* a handleSubmit that leaves the message of the submission before in place
ForgotPageSubmitKeepingMessage ==
    /\ forgotPage.step = "idle"
    /\ ~forgotPage.loading
    /\ nextToken <= MaxTokens
    /\ forgotPage' =
          IF FalsyEmail(forgotPage.email) \/ ~Includes(forgotPage.email, "@")
          THEN [forgotPage EXCEPT !.error = "Please enter a valid email address"]
          ELSE [forgotPage EXCEPT !.step = "fetching", !.loading = TRUE,
                                  !.message = "", !.error = ""]
    /\ UNCHANGED <<disk, server, todos, todoTask, todoCalls, unsaved, nodeEnv, codec, nextUuid, newUser, resetPage, cleanupFailed>>

\* handleSubmit up to the call of fetch
ForgotPageSubmit ==
    /\ forgotPage.step = "idle"
    /\ ~forgotPage.loading
    /\ nextToken <= MaxTokens
    /\ forgotPage' =
          IF FalsyEmail(forgotPage.email) \/ ~Includes(forgotPage.email, "@")
          THEN [forgotPage EXCEPT !.message = "",
                                  !.error = "Please enter a valid email address"]
          ELSE [forgotPage EXCEPT !.step = "fetching", !.loading = TRUE,
                                  !.message = "", !.error = ""]
    /\ UNCHANGED <<disk, server, todos, todoTask, todoCalls, unsaved, nodeEnv, codec, nextUuid, newUser, resetPage, cleanupFailed>>

\* the request of fetch reaches the forgot-password handler
ForgotPageSend ==
    /\ forgotPage.step = "fetching"
    /\ ForgotBegin(PageProc, forgotPage.email)
    /\ pre' = [pre EXCEPT ![PageProc] = Snapshot(NoJWT)]

\* fetch rejects: the request never reaches the server
ForgotPageFetchFault ==
    /\ forgotPage.step = "fetching"
    /\ Ready(PageProc)
    /\ forgotPage' = [forgotPage EXCEPT !.step = "idle", !.loading = FALSE,
                                        !.error = "An error occurred. Please try again."]
    /\ UNCHANGED <<disk, server, todos, todoTask, todoCalls, unsaved, nodeEnv, codec, nextUuid, newUser, resetPage, cleanupFailed>>

\* the handler has answered: the response arrives and response.json() gives
\* its body, or the connection breaks and fetch rejects; finally
\* setLoading(false)
ForgotPageResponse(arrived) ==
    /\ forgotPage.step = "fetching"
    /\ pc[PageProc] = "done"
    /\ forgotPage' =
          IF ~arrived
          THEN [forgotPage EXCEPT !.step = "idle", !.loading = FALSE,
                                  !.error = "An error occurred. Please try again."]
          ELSE IF res[PageProc].status \in 200 .. 299
          THEN [forgotPage EXCEPT !.step = "idle", !.loading = FALSE,
                                  !.message = res[PageProc].message,
                                  !.email = << >>]
          ELSE [forgotPage EXCEPT !.step = "idle", !.loading = FALSE,
                                  !.error = IF res[PageProc].message = ""
                                            THEN "Failed to send reset email"
                                            ELSE res[PageProc].message]
    /\ pc' = [pc EXCEPT ![PageProc] = "idle"]
    /\ req' = [req EXCEPT ![PageProc] = NoRequest]
    /\ res' = [res EXCEPT ![PageProc] = NoResponse]
    /\ pre' = [pre EXCEPT ![PageProc] = NoSnapshot]
    /\ UNCHANGED <<disk, todos, todoTask, todoCalls, unsaved, nodeEnv, codec, nextUuid, newUser, resetPage, cleanupFailed, bg, serverless,
                   now, users, resetTokens, nextToken, tokens, usersRead, cleanerPc,
                   cleanerTokens, sendCalls, resets, dones>>

NextForgotPage ==
    \/ Returned /\ Tick
    \/ \E email \in PageEmails : ForgotPageType(email)
    \/ ForgotPageSubmit
    \/ ForgotPageSend
    \/ ForgotPageFetchFault
    \/ ContinueForgot(PageProc)
    \/ \E arrived \in BOOLEAN : ForgotPageResponse(arrived)
    \/ \E p \in OtherProcs : Quiet /\ Fresh /\ SeedBegin(p)
    \/ \E p \in OtherProcs : RegisterContinue(p) \/ UsersFileOpen(p)
    \/ \E p \in OtherProcs : Return(p)

\* the steps that a pending fetch is waiting for: the browser delivers the
\* request, the handler runs on, the response or its loss is reported
ForgotPageProgress ==
    \/ ForgotPageSend
    \/ ContinueForgot(PageProc)
    \/ \E arrived \in BOOLEAN : ForgotPageResponse(arrived)

\* one browser on the forgot-password page and the server; a pending fetch
\* is settled in the end
SpecForgotPage == Init /\ [][NextForgotPage]_vars /\ WF_vars(ForgotPageProgress)

\* C30: every submit of the forgot-password page completes: loading goes back
\* to false, and when it does exactly one of the success message and the
\* error message is shown; while loading is true no edit of the email field
\* and no further submit gets through.
ForgotPageCompletes ==
    /\ [][/\ (forgotPage.loading /\ ~forgotPage'.loading)
                => ((forgotPage'.message # "") # (forgotPage'.error # ""))
          /\ (forgotPage.step = "idle" /\ forgotPage' # forgotPage
                 /\ forgotPage'.step = "idle" /\ forgotPage'.email = forgotPage.email)
                => (/\ ~forgotPage'.loading
                    /\ (forgotPage'.message # "") # (forgotPage'.error # ""))
          /\ forgotPage.loading
                => (/\ forgotPage'.step \in {"fetching", "idle"}
                    /\ forgotPage'.email \in {forgotPage.email, << >>}
                    /\ forgotPage'.loading => forgotPage' = forgotPage)]_vars
    /\ forgotPage.loading ~> ~forgotPage.loading

\* the handler answered 500 because the email could not be sent, and the page
\* shows that error with the button enabled again
ServerErrorShown ==
    /\ forgotPage.step = "idle"
    /\ ~forgotPage.loading
    /\ forgotPage.message = ""
    /\ forgotPage.error = "Failed to send password reset email. Please try again later."


\* the password typed into the page is long enough and equals the confirmation
PasswordAcceptable(page) ==
    /\ page.password # ""
    /\ Len(page.password) >= 6
    /\ page.password = page.confirmPassword

\* C31: a submit of the reset-password page leads to a request only if the
\* password has at least 6 characters and equals the confirmation; an empty
\* or shorter password shows 'Password must be at least 6 characters long', a
\* mismatch shows 'Passwords do not match', and in both cases nothing is sent
\* and the ledger and users.json stay as they are.
ClientSideGate ==
    [][/\ ResetPageSubmit =>
             /\ UNCHANGED <<resetTokens, users, pc, req, res, sendCalls, resets, dones>>
             /\ IF PasswordAcceptable(resetPage)
                THEN resetPage'.step = "fetching" /\ resetPage'.loading
                ELSE /\ resetPage'.step = "shown"
                     /\ ~resetPage'.loading
                     /\ resetPage'.message = ""
                     /\ resetPage'.error =
                           IF resetPage.password = "" \/ Len(resetPage.password) < 6
                           THEN "Password must be at least 6 characters long"
                           ELSE "Passwords do not match"
       /\ (pc[PageProc] = "idle" /\ pc'[PageProc] # "idle")
             => (PasswordAcceptable(resetPage) /\ resetPage.step = "fetching")]_vars

\* the page turned a mismatch down while the ledger still holds the unused
\* record of the token the page was opened with
MismatchKeepsToken ==
    /\ resetPage.step = "shown"
    /\ resetPage.error = "Passwords do not match"
    /\ resetPage.token.kind = "jwt"
    /\ \E i \in 1 .. Len(resetTokens) :
          /\ resetTokens[i].token = resetPage.token.resetToken
          /\ resetTokens[i].email = resetPage.token.email
          /\ ~resetTokens[i].used


(***************************************************************************)
(* The todo list: todoUtils and the /api/todos routes.                     *)
(***************************************************************************)
\* number of todos todos.json can hold (bound)
MaxTodos == 2
\* number of todo requests received (bound)
MaxTodoCalls == 4

\* Date.now().toString(): the digits of the clock value
DateNowString(t) == <<"digits", t>>

\* new Date().toISOString(): the ISO text of the clock value
ISOString(t) == <<"iso", t>>

TodoTitles == {"", "Buy milk"}
TodoUserIds == {"", "1"}
\* the ids a URL can name: those createTodo can have given, and another one
TodoIds == {DateNowString(t) : t \in 0 .. MaxClock + 1}

\* the JSON bodies of PUT /api/todos/[id]
UpdatePayloads ==
    {[completed |-> TRUE],
     [id |-> DateNowString(MaxClock + 1), userId |-> "2"],
     [createdAt |-> ISOString(MaxClock + 1)]}

\* createTodo: newTodo built from title and userId with the defaults
NewTodo(title, userId, t) ==
    [id |-> DateNowString(t), title |-> title, priority |-> "medium",
     completed |-> FALSE, userId |-> userId, createdAt |-> ISOString(t),
     updatedAt |-> ISOString(t)]

\* updateTodo: { ...todos[todoIndex], ...updates, updatedAt }
UpdatedTodo(todo, updates, t) ==
    [k \in DOMAIN todo \cup DOMAIN updates |->
        IF k = "updatedAt" THEN ISOString(t)
        ELSE IF k \in DOMAIN updates THEN updates[k]
        ELSE todo[k]]

\* the bytes of todos.json: a record has 265 bytes of braces, keys,
\* indentation, its id, its empty or default fields and its two dates, the
\* letters of its title and userId and "true" or "false"
TodosLength(list) ==
    JsonLength([i \in 1 .. Len(list) |->
                   265 + Len(list[i].title) + Len(list[i].userId)
                       + IF list[i].completed THEN 4 ELSE 5])

\* todos.findIndex(todo => todo.id === id), 0 standing for -1
TodoIndex(list, id) == FindIndex({i \in 1 .. Len(list) : list[i].id = id})

\* todos.splice(todoIndex, 1)
Spliced(list, index) ==
    [i \in 1 .. Len(list) - 1 |-> IF i < index THEN list[i] ELSE list[i + 1]]

\* the handler's answer is out
TodoAnswer(p, op, status) ==
    todoTask' = [todoTask EXCEPT ![p] = [NoTodoTask EXCEPT !.stage = "done", !.op = op,
                                                           !.status = status]]

\* the handler waits for its write of todos.json
TodoWrite(p, op, status, list) ==
    todoTask' = [todoTask EXCEPT ![p] = [stage |-> "save", op |-> op, todos |-> list,
                                         status |-> status]]

\* POST /api/todos: the input check, then createTodo after its read of
\* todos.json: newTodo is pushed and the write is issued
TodoCreate(p, title, userId) ==
    /\ todoTask[p].stage = "idle"
    /\ todoCalls < MaxTodoCalls
    /\ todoCalls' = todoCalls + 1
    /\ IF title = "" \/ userId = ""
       THEN TodoAnswer(p, "create", 400)
       ELSE /\ Len(todos) < MaxTodos
            /\ TodoWrite(p, "create", 201, Append(todos, NewTodo(title, userId, now)))
    /\ UNCHANGED <<disk, server, todos, unsaved, nodeEnv, codec, nextUuid, newUser, forgotPage, resetPage,
                   cleanupFailed>>

\* PUT /api/todos/[id]: updateTodo after its read of todos.json
TodoUpdate(p, id, updates) ==
    /\ todoTask[p].stage = "idle"
    /\ todoCalls < MaxTodoCalls
    /\ todoCalls' = todoCalls + 1
    /\ LET todoIndex == TodoIndex(todos, id)
       IN IF todoIndex = 0
          THEN TodoAnswer(p, "update", 404)
          ELSE TodoWrite(p, "update", 200,
                         [todos EXCEPT ![todoIndex] = UpdatedTodo(@, updates, now)])
    /\ UNCHANGED <<disk, server, todos, unsaved, nodeEnv, codec, nextUuid, newUser, forgotPage, resetPage,
                   cleanupFailed>>

\* DELETE /api/todos/[id]: deleteTodo after its read of todos.json
TodoDelete(p, id) ==
    /\ todoTask[p].stage = "idle"
    /\ todoCalls < MaxTodoCalls
    /\ todoCalls' = todoCalls + 1
    /\ LET todoIndex == TodoIndex(todos, id)
       IN IF todoIndex = 0
          THEN TodoAnswer(p, "delete", 404)
          ELSE TodoWrite(p, "delete", 200, Spliced(todos, todoIndex))
    /\ UNCHANGED <<disk, server, todos, unsaved, nodeEnv, codec, nextUuid, newUser, forgotPage, resetPage,
                   cleanupFailed>>

\* fs.writeFile opens todos.json, which truncates it: until the content is
\* written readDataFromFile returns []
TodoFileOpen(p) ==
    /\ todoTask[p].stage = "save"
    /\ todos' = << >>
    /\ fileSize' = [fileSize EXCEPT !["todos.json"] = 0]
    /\ todoTask' = [todoTask EXCEPT ![p].stage = "land"]
    /\ UNCHANGED <<faults, server, todoCalls, unsaved, nodeEnv, codec, nextUuid, newUser, forgotPage, resetPage,
                   cleanupFailed>>

\* the write of todos.json lands and the handler answers
TodoSave(p) ==
    /\ todoTask[p].stage = "land"
    /\ todos' = Written(todoTask[p].todos, TodosLength(todoTask[p].todos),
                        fileSize["todos.json"])
    /\ fileSize' = [fileSize EXCEPT
                       !["todos.json"] = WrittenSize(TodosLength(todoTask[p].todos), @)]
    /\ TodoAnswer(p, todoTask[p].op, todoTask[p].status)
    /\ UNCHANGED <<faults, server, todoCalls, unsaved, nodeEnv, codec, nextUuid, newUser, forgotPage, resetPage,
                   cleanupFailed>>

\* the response has gone out
TodoReturn(p) ==
    /\ todoTask[p].stage = "done"
    /\ todoTask' = [todoTask EXCEPT ![p] = NoTodoTask]
    /\ UNCHANGED <<disk, server, todos, todoCalls, unsaved, nodeEnv, codec, nextUuid, newUser, forgotPage, resetPage,
                   cleanupFailed>>

\* no todo response is waiting to go out
TodoReturned == \A p \in Procs : todoTask[p].stage # "done"

\* the clock while the todo handlers run
TodoTick ==
    /\ now < MaxClock
    /\ now' = now + 1
    /\ UNCHANGED <<disk, elsewhere, bg, serverless, users, resetTokens, nextToken, pc, req,
                   tokens, usersRead, res, cleanerPc, cleanerTokens, sendCalls,
                   resets, dones, pre>>

NextTodos ==
    \/ TodoReturned /\ TodoTick
    \/ \E p \in Procs, title \in TodoTitles, userId \in TodoUserIds :
          TodoReturned /\ TodoCreate(p, title, userId)
    \/ \E p \in Procs, id \in TodoIds, updates \in UpdatePayloads :
          TodoReturned /\ TodoUpdate(p, id, updates)
    \/ \E p \in Procs, id \in TodoIds : TodoReturned /\ TodoDelete(p, id)
    \/ \E p \in Procs : TodoReturned /\ TodoFileOpen(p)
    \/ \E p \in Procs : TodoReturned /\ TodoSave(p)
    \/ \E p \in Procs : TodoReturn(p)

\* the todo handlers interleaving at their reads and writes of todos.json
SpecTodos == Init /\ [][NextTodos]_vars


\* the identity fields of a todo
IdentityFields == {"id", "createdAt", "userId"}

\* C32: an update that PUT /api/todos/[id] accepts writes an array in which
\* the todo it names has the id, createdAt and userId it had, whatever keys
\* the payload carries, and every other todo is as it was
IdentityFieldsKept ==
    [][\A p \in Procs :
          (todoTask[p].stage = "idle" /\ todoTask'[p].stage = "save"
           /\ todoTask'[p].op = "update")
          => LET written == todoTask'[p].todos
             IN /\ Len(written) = Len(todos)
                /\ \E index \in 1 .. Len(todos) :
                      /\ \A k \in IdentityFields : written[index][k] = todos[index][k]
                      /\ \A i \in 1 .. Len(todos) : i # index => written[i] = todos[i]]_vars


(***************************************************************************)
(* The order of issue and delivery.                                        *)
(***************************************************************************)
\* C33: at every call of the email delivery by the forgot-password handler the
\* ledger holds an unused record of the email and secret of the call, and the
\* url of the call carries the envelope made of that email and secret
IssueBeforeSend ==
    [][\A c \in sendCalls' \ sendCalls :
          /\ \E i \in 1 .. Len(resetTokens') :
                /\ resetTokens'[i].email = c.email
                /\ resetTokens'[i].token = c.resetToken
                /\ ~resetTokens'[i].used
          /\ \E t \in 0 .. MaxClock :
                c.resetUrl = getResetUrl(createResetJWT(c.email, c.resetToken, t))]_vars


(***************************************************************************)
(* The life of a token: Issued, then Consumed or Expired/Superseded.       *)
(***************************************************************************)
\* validateResetToken(email, resetToken) would return true on this ledger at
\* this time
InIssuedState(ledger, email, resetToken, t) ==
    \E i \in 1 .. Len(ledger) :
        /\ ledger[i].email = email
        /\ ledger[i].token = resetToken
        /\ ~ledger[i].used
        /\ ledger[i].expiresAt > t

\* the handlers whose fs.writeFile has opened resetTokens.json
Writers == {p \in Procs : pc[p] \in {"store_land", "validate_land", "mark_land"}}

\* resetTokens.json as the one fs.writeFile that has opened it, if there is
\* one, leaves it
WrittenLedger ==
    IF Writers # {} THEN tokens[CHOOSE p \in Writers : TRUE]
    ELSE IF cleanerPc = "cleanup_land" THEN cleanerTokens
    ELSE resetTokens

\* C34: with the ledger operations run one at a time, a token that was issued
\* and is no longer valid (consumed, expired or superseded) is not valid after
\* any later store, validate, markUsed or cleanup: the ledger of each step is
\* the file as the write of the operation leaves it
ValidityMonotone ==
    [][\A c \in sendCalls :
          ~InIssuedState(WrittenLedger, c.email, c.resetToken, now)
          => ~InIssuedState(WrittenLedger', c.email, c.resetToken, now')]_vars

\* the expired record of one token is still in the ledger after a token was
\* stored for another email, at or after the expiry of the first
StoredBesideExpired ==
    \E c1 \in sendCalls, c2 \in sendCalls :
        /\ c1.email # c2.email
        /\ ~InIssuedState(resetTokens, c1.email, c1.resetToken, now)
        /\ \E i \in 1 .. Len(resetTokens), j \in 1 .. Len(resetTokens) :
              /\ resetTokens[i].email = c1.email
              /\ resetTokens[i].token = c1.resetToken
              /\ resetTokens[j].email = c2.email
              /\ resetTokens[j].token = c2.resetToken
              /\ resetTokens[j].expiresAt - TOKEN_EXPIRY_HOURS * HourMs
                    >= resetTokens[i].expiresAt


(***************************************************************************)
(* The process stops between the two writes of the reset handler.          *)
(***************************************************************************)
\* the Node process stops and is started again: every handler, the cleanup
\* run and every pending promise are gone without a response. The files of the
\* data directory stay as they are, a file that fs.writeFile has opened and not
\* yet written stays empty; memoryStorage starts over with its initial value
Crash ==
    /\ \/ \E p \in Procs : pc[p] \notin {"idle", "done"}
       \/ cleanerPc # "idle"
       \/ bg # EmptyBag
    /\ pc' = [p \in Procs |-> "idle"]
    /\ req' = [p \in Procs |-> NoRequest]
    /\ res' = [p \in Procs |-> NoResponse]
    /\ pre' = [p \in Procs |-> NoSnapshot]
    /\ tokens' = [p \in Procs |-> EmptyTokens]
    /\ usersRead' = [p \in Procs |-> << >>]
    /\ newUser' = [p \in Procs |-> NoUser]
    /\ cleanerPc' = "idle"
    /\ cleanerTokens' = EmptyTokens
    /\ bg' = EmptyBag
    /\ users' = IF serverless THEN InitialUsers ELSE users
    /\ resetTokens' = IF serverless THEN EmptyTokens ELSE resetTokens
    /\ UNCHANGED <<disk, todos, todoTask, todoCalls, unsaved, nodeEnv, codec, nextUuid, forgotPage,
                   resetPage, cleanupFailed, serverless, now, nextToken, sendCalls, resets,
                   dones>>

NextCrash ==
    \/ NextSeq
    \/ Returned /\ Crash

\* SpecSeq with a process that can stop at any await
SpecCrash == Init /\ [][NextCrash]_vars

\* C35: a ledger record is marked used only when a reset carrying its token
\* has written the new password before; and when the process stops after the
\* reset handler has written users.json and before markTokenAsUsed has
\* completed, the password is the new one while the record of the token is
\* still in the ledger, unused
PasswordBeforeConsumption ==
    [][/\ \A i \in 1 .. Len(resetTokens') :
             resetTokens'[i].used => resets'[resetTokens'[i].token] > 0
       /\ \A p \in Procs :
             (pc[p] \in {"mark_load", "mark_save", "mark_land"} /\ pc'[p] = "idle")
             => /\ \E u \in 1 .. Len(users') :
                      /\ ToLowerCase(users'[u].email) = ToLowerCase(req[p].email)
                      /\ users'[u].password = BcryptHash(req[p].password)
                /\ \E i \in 1 .. Len(resetTokens') :
                      /\ resetTokens'[i].email = req[p].email
                      /\ resetTokens'[i].token = req[p].resetToken
                      /\ ~resetTokens'[i].used]_vars

(***************************************************************************)
(* The spelling of an email and the tokens of an account.                  *)
(***************************************************************************)
\* the ledger records with which the password of this user can be reset now:
\* unused, unexpired, and of an email that findIndex resolves to the user
ResetRecords(userIndex) ==
    {i \in 1 .. Len(resetTokens) :
        /\ ~resetTokens[i].used
        /\ resetTokens[i].expiresAt > now
        /\ ToLowerCase(resetTokens[i].email) = ToLowerCase(users[userIndex].email)}

\* C36: whatever the case in which the emails of the requests are spelled, at
\* most one unused, unexpired ledger record can reset the password of a
\* credential record
OneValidTokenPerAccount ==
    \A userIndex \in 1 .. Len(users) : Cardinality(ResetRecords(userIndex)) <= 1


(***************************************************************************)
(* A ledger write that fails.                                              *)
(***************************************************************************)
\* C37: when the forgot-password handler of an existing email ends, either
\* the record of its token is in the ledger, or no email was handed to the
\* delivery and the answer is 500
LedgerFailureNotMasked ==
    [][\A p \in Procs :
          (pc[p] = "send" /\ pc'[p] = "done")
          => \/ \E i \in 1 .. Len(resetTokens') :
                   /\ resetTokens'[i].email = req[p].email
                   /\ resetTokens'[i].token = req[p].resetToken
             \/ /\ \A c \in sendCalls' : c.resetToken # req[p].resetToken
                /\ res'[p].status = 500]_vars


(***************************************************************************)
(* A write of users.json that fails.                                       *)
(***************************************************************************)
\* C38: when the write of users.json fails in the reset handler, the answer
\* is 500, users.json is what the request met, the ledger is as it was, and
\* the record of the token is in the ledger unused: validateResetToken accepts
\* the same envelope again as long as the record has not expired
FailedResetRetryable ==
    [][\A p \in Procs :
          UsersSaveFault(p)
          => /\ res'[p].status = 500
             /\ users' = pre[p].users
             /\ resetTokens' = resetTokens
             /\ \E i \in 1 .. Len(resetTokens') :
                   /\ resetTokens'[i].email = req[p].email
                   /\ resetTokens'[i].token = req[p].resetToken
                   /\ ~resetTokens'[i].used
                   /\ (resetTokens'[i].expiresAt > now'
                       <=> InIssuedState(resetTokens', req[p].email,
                                         req[p].resetToken, now'))]_vars

(***************************************************************************)
(* The ids of the todos.                                                   *)
(***************************************************************************)
\* C39: the todos of todos.json have pairwise distinct ids
TodoIdsUnique ==
    \A i \in 1 .. Len(todos), j \in 1 .. Len(todos) :
        i # j => todos[i].id # todos[j].id

====
